---------------------------- MODULE Spec2Model ----------------------------
(***************************************************************************)
(* Clipboard QR extension: the history queue (shared.js), the write        *)
(* serializer (createSerialQueue), the state the popup opens with          *)
(* (computeInitialState) and the contexts that append to the persisted     *)
(* history (popup.js, content-script.js, background.js).                   *)
(*                                                                         *)
(* A text is a sequence of one-character strings, so that trimming is      *)
(* computed and not assumed.  A raw JavaScript value handed to a function  *)
(* is a record [k, s]: k is its type, s its characters (for a number, the  *)
(* characters of its toString()).                                          *)
(***************************************************************************)
EXTENDS Integers, Sequences, FiniteSets, TLC

VARIABLES
    fnPhase,    \* pure functions: "input", "once" (applied), "twice" (re-applied)
    inHistory,  \* pure functions: the raw `history` argument
    inText,     \* pure functions: the raw `text` argument
    inLimit,    \* pure functions: the `limit` argument
    out1,       \* updateHistory(inHistory, inText, inLimit)
    out2,       \* updateHistory(out1, inText, inLimit)
    inLastClipboard, \* computeInitialState: the raw opts.lastClipboard
    inCurrentText,   \* computeInitialState: the raw opts.currentText
    inNewClipboard,  \* computeInitialState: the raw opts.newClipboard
    initialState,    \* computeInitialState(opts), the object it returns
    reopenedState,   \* computeInitialState of what initialState stored
    copyEvent,  \* extractCopiedTextFromCopyEvent: the event and the document
    extracted,  \* extractCopiedTextFromCopyEvent(e, doc)
    storedText, \* chrome.storage.local: the values under "currentText" and
                \* "lastClipboard"
    popupOp,    \* popup: the addToHistory / moveToEnd task that is running
    contentOp,  \* content script: the addToHistory task that is running
    load,       \* popup: loadInitialState, its locals and what it shows
    world,      \* the system clipboard, the texts used so far, counters
    persister,  \* saveHistory / pushToHistory / saveToHistory: the call in
                \* progress (arguments, locals, status line, returned value)
    tasks,      \* every task handed to an enqueue function, in enqueue order
    chain,      \* per serializer: the task whose promise is `chain` (0: the
                \* initial Promise.resolve())
    started,    \* per serializer: the tasks whose body has begun to run, in
                \* that order
    store       \* chrome.storage.local: the value under "clipboardHistory"

rcVars == <<inLastClipboard, inCurrentText, inNewClipboard, initialState,
            reopenedState>>
utilVars == <<copyEvent, extracted>>
histVars == <<storedText, popupOp, contentOp, load, world>>
appVars == <<copyEvent, extracted, storedText, popupOp, contentOp, load, world,
             persister>>
fnVars == <<fnPhase, inHistory, inText, inLimit, out1, out2,
            inLastClipboard, inCurrentText, inNewClipboard, initialState,
            reopenedState, copyEvent, extracted, storedText, popupOp, contentOp, load,
            world, persister>>
queueVars == <<tasks, chain, started, store>>
vars == <<fnPhase, inHistory, inText, inLimit, out1, out2,
          inLastClipboard, inCurrentText, inNewClipboard, initialState,
          reopenedState, copyEvent, extracted, storedText, popupOp, contentOp, load, world,
          persister, tasks, chain, started, store>>

---------------------------------------------------------------------------
(* Bounds of the model. *)
MaxLen == 3        \* longest raw history array fed to the pure functions
MaxLimit == 3      \* largest `limit` fed to the pure functions
MaxJobs == 4       \* tasks enqueued on the serializers under test
MaxOps == 3        \* appends and messages begun in the extension's contexts

---------------------------------------------------------------------------
(* Raw JavaScript values. *)
Str(s) == [k |-> "string", s |-> s]
Num(s) == [k |-> "number", s |-> s]
Null == [k |-> "null", s |-> <<>>]
Undefined == [k |-> "undefined", s |-> <<>>]
Arr(items) == [isArray |-> TRUE, items |-> items]
NotArr == [isArray |-> FALSE, items |-> <<>>]

WhiteSpace == {" ", "\t"}

\* the characters the texts are made of
Alphabet == <<"a", "b", "c", "d", "e", "f", "g", "h", "i", "j", "k", "l",
              "m", "n">>

RECURSIVE trimStart(_)
trimStart(s) ==
    IF s # <<>> /\ Head(s) \in WhiteSpace THEN trimStart(Tail(s)) ELSE s

RECURSIVE trimEnd(_)
trimEnd(s) ==
    IF s # <<>> /\ s[Len(s)] \in WhiteSpace
    THEN trimEnd(SubSeq(s, 1, Len(s) - 1)) ELSE s

\* String.prototype.trim
trim(s) == trimEnd(trimStart(s))

\* (text ?? "").toString().trim()
trimmedText(text) ==
    IF text.k \in {"null", "undefined"} THEN <<>> ELSE trim(text.s)

\* Array.prototype.map(trimmedText)
mapTrimmed(items) == [i \in 1..Len(items) |-> trimmedText(items[i])]

\* Array.prototype.filter(Boolean) on strings: the empty string is falsy
filterBoolean(texts) == SelectSeq(texts, LAMBDA h : h # <<>>)

\* faulty variant of coerceTextArray: nothing is removed
coerceKeepAll(value) ==
    IF ~value.isArray THEN <<>> ELSE mapTrimmed(value.items)

coerceTextArray(value) ==
    IF ~value.isArray THEN <<>> ELSE filterBoolean(mapTrimmed(value.items))

\* faulty variant of spliceHead: removes the newest elements (the tail)
spliceHeadKeepHead(arr, deleteCount) ==
    SubSeq(arr, 1, Len(arr) - deleteCount)

\* faulty variant of spliceHead: removes nothing
spliceHeadNothing(arr, deleteCount) == arr

\* arr.splice(0, deleteCount): the array without its first deleteCount
\* elements (deleteCount is clamped to 0..arr.length)
spliceHead(arr, deleteCount) ==
    LET dc == IF deleteCount < 0 THEN 0
              ELSE IF deleteCount > Len(arr) THEN Len(arr) ELSE deleteCount
    IN  SubSeq(arr, dc + 1, Len(arr))

\* faulty variant of filterAndPush: the old occurrence is kept
filterAndPushNoFilter(queue, t) == Append(queue, t)

\* queue.filter((h) => h !== t); filtered.push(t)
filterAndPush(queue, t) == Append(SelectSeq(queue, LAMBDA h : h # t), t)

\* faulty variant of updateHistory: the limit is applied to the queue even
\* when there is no text to insert
updateHistoryTrimAlways(history, text, limit) ==
    LET queue == coerceTextArray(history)
        t == trimmedText(text)
        filtered == IF t = <<>> THEN queue ELSE filterAndPush(queue, t)
    IN  IF Len(filtered) > limit
        THEN spliceHead(filtered, Len(filtered) - limit)
        ELSE filtered

updateHistory(history, text, limit) ==
    LET queue == coerceTextArray(history)
        t == trimmedText(text)
    IN  IF t = <<>> THEN queue
        ELSE LET filtered == filterAndPush(queue, t)
             IN  IF Len(filtered) > limit
                 THEN spliceHead(filtered, Len(filtered) - limit)
                 ELSE filtered

\* A history returned by the code, handed back to it as an array of strings
asArray(texts) == Arr([i \in 1..Len(texts) |-> Str(texts[i])])

---------------------------------------------------------------------------
(* The write serializer: createSerialQueue.                                *)
(*                                                                         *)
(* Every call of createSerialQueue() makes one serializer; a serializer is *)
(* named by the context that made it.  A task is a record:                 *)
(*   ctx      the serializer it was enqueued on                            *)
(*   kind     "job": any async function (it starts, stays suspended for    *)
(*            an arbitrary time, then fulfils or rejects); "append": the   *)
(*            read-modify-write of addToHistory; "message": the task the   *)
(*            background listener enqueues for a CLIPBOARD_ADD message     *)
(*   text     the text the task's closure holds                            *)
(*   pred     the task whose promise was `chain` when it was enqueued      *)
(*   pc       "queued", then the position of its body, then "done"         *)
(*   result   how the task's own body ended: "none", "ok", "failed"        *)
(*   promise  the promise enqueue returned: "pending", "fulfilled",        *)
(*            "rejected"                                                   *)
(*   value    the history the task is writing                              *)
(*   inner    for a "message" task: the task it awaits (0: none)           *)
(*   response for a "message" task: what sendResponse was called with      *)
(*   waited   whether `chain` was still pending when it was enqueued       *)
(* Promise reactions that are ready run in any order: the order of the     *)
(* JavaScript job queue is one of these orders.                            *)
(***************************************************************************)
TestQueues == {"q1", "q2"}
Contexts == TestQueues \cup {"popup", "content", "background"}

QueueInit ==
    /\ tasks = <<>>
    /\ chain = [c \in Contexts |-> 0]
    /\ started = [c \in Contexts |-> <<>>]
    /\ store = NotArr

---------------------------------------------------------------------------
(* computeInitialState: what the popup shows when it opens. *)

\* the default of `limit` in the destructuring of opts
DefaultLimit == 10

\* a destructuring default: it replaces undefined only
orDefault(value, default) == IF value = Undefined THEN default ELSE value

\* the limit property of opts is <<n>>, or <<>> when it is absent
limitOrDefault(limit) == IF limit = <<>> THEN DefaultLimit ELSE limit[1]

\* faulty variant of clipboardIsNew: an empty (failed) clipboard read counts
\* as a new copy
clipboardIsNewNoEmptyCheck(trimmedNewClipboard, trimmedLastClipboard) ==
    trimmedNewClipboard # trimmedLastClipboard

\* case 1: the clipboard has content different from last time
clipboardIsNew(trimmedNewClipboard, trimmedLastClipboard) ==
    trimmedNewClipboard # <<>> /\ trimmedNewClipboard # trimmedLastClipboard

\* faulty variant of editPending: a saved text equal to the last clipboard is
\* taken for an edit
editPendingAlways(trimmedCurrentText, trimmedLastClipboard) ==
    trimmedCurrentText # <<>>

\* the textbox holds an edit made since the last observed clipboard
editPending(trimmedCurrentText, trimmedLastClipboard) ==
    trimmedCurrentText # <<>> /\ trimmedCurrentText # trimmedLastClipboard

\* faulty variant of updatedHistory: the new clipboard is inserted first
updatedHistoryClipboardFirst(cleanHistory, trimmedCurrentText, trimmedNewClipboard, trimmedLastClipboard, limit) ==
    LET first == updateHistory(asArray(cleanHistory),
                               Str(trimmedNewClipboard), limit)
    IN  IF editPending(trimmedCurrentText, trimmedLastClipboard)
        THEN updateHistory(asArray(first), Str(trimmedCurrentText), limit)
        ELSE first

\* faulty variant of updatedHistory: the edited text is never inserted
updatedHistoryNoEdit(cleanHistory, trimmedCurrentText, trimmedNewClipboard, trimmedLastClipboard, limit) ==
    updateHistory(asArray(cleanHistory), Str(trimmedNewClipboard), limit)

\* case 1: the history after the edited text (if any) and then the new
\* clipboard text are inserted
updatedHistory(cleanHistory, trimmedCurrentText, trimmedNewClipboard, trimmedLastClipboard, limit) ==
    LET first == IF editPending(trimmedCurrentText, trimmedLastClipboard)
                 THEN updateHistory(asArray(cleanHistory),
                                    Str(trimmedCurrentText), limit)
                 ELSE cleanHistory
    IN  updateHistory(asArray(first), Str(trimmedNewClipboard), limit)

\* a faulty variant of fallback: the history is not consulted
fallbackNothing(cleanHistory) == <<>>

\* faulty variant of fallback: the oldest history item
fallbackOldest(cleanHistory) ==
    IF Len(cleanHistory) > 0 THEN cleanHistory[1] ELSE <<>>

\* case 3: the most recent history item, "" if there is none
fallback(cleanHistory) ==
    IF Len(cleanHistory) > 0 THEN cleanHistory[Len(cleanHistory)] ELSE <<>>

computeInitialState(opts) ==
    LET lastClipboard == orDefault(opts.lastClipboard, Str(<<>>))
        currentText == orDefault(opts.currentText, Str(<<>>))
        newClipboard == orDefault(opts.newClipboard, Str(<<>>))
        limit == limitOrDefault(opts.limit)
        trimmedLastClipboard == trimmedText(lastClipboard)
        trimmedCurrentText == trimmedText(currentText)
        trimmedNewClipboard == trimmedText(newClipboard)
        cleanHistory == coerceTextArray(opts.history)
    IN  IF clipboardIsNew(trimmedNewClipboard, trimmedLastClipboard)
        THEN [displayText |-> trimmedNewClipboard,
              newHistory |-> updatedHistory(cleanHistory, trimmedCurrentText,
                                 trimmedNewClipboard, trimmedLastClipboard,
                                 limit),
              newLastClipboard |-> trimmedNewClipboard,
              newCurrentText |-> trimmedNewClipboard,
              clipboardChanged |-> TRUE]
        ELSE IF trimmedCurrentText # <<>>
        THEN [displayText |-> trimmedCurrentText,
              newHistory |-> cleanHistory,
              newLastClipboard |-> trimmedLastClipboard,
              newCurrentText |-> trimmedCurrentText,
              clipboardChanged |-> FALSE]
        ELSE [displayText |-> fallback(cleanHistory),
              newHistory |-> cleanHistory,
              newLastClipboard |-> trimmedLastClipboard,
              newCurrentText |-> fallback(cleanHistory),
              clipboardChanged |-> FALSE]

\* before computeInitialState has returned there is no state object
NoState ==
    [displayText |-> <<>>, newHistory |-> <<>>, newLastClipboard |-> <<>>,
     newCurrentText |-> <<>>, clipboardChanged |-> FALSE]

\* no persister call: nothing passed, nothing written, nothing returned
NoPersist ==
    [variant |-> "none", phase |-> "idle", call |-> 0, mode |-> "none",
     capacity |-> 0, before |-> NotArr, text |-> Null, history |-> NotArr,
     existingQueue |-> <<>>, queue |-> <<>>, finalQueue |-> <<>>,
     didEvictForQuota |-> FALSE, attempts |-> 0, lastError |-> "",
     lastLength |-> 0, status |-> "", aborted |-> FALSE,
     returned |-> [defined |-> FALSE, queue |-> <<>>],
     firstReturned |-> <<>>]

\* a text control (or any element): null, or its tagName, value and
\* selection; numeric says whether selectionStart and selectionEnd are
\* numbers
NoElement ==
    [isNull |-> TRUE, tagName |-> "", value |-> Undefined,
     selectionStart |-> 0, selectionEnd |-> 0, numeric |-> FALSE]

\* no copy event: extractCopiedTextFromCopyEvent is not called
NoEvent ==
    [given |-> FALSE, getDataThrows |-> FALSE, clipboardData |-> Undefined,
     hasDocument |-> FALSE, activeElement |-> NoElement, target |-> NoElement,
     getSelectionThrows |-> FALSE, selection |-> Undefined]

UtilIdle == copyEvent = NoEvent /\ extracted = <<>>

\* no addToHistory / moveToEnd task is running in a context
NoOp == [phase |-> "idle", kind |-> "", text |-> <<>>, next |-> <<>>]

\* the popup is closed: loadInitialState has not been called
NoLoad ==
    [phase |-> "closed", history |-> <<>>, currentText |-> <<>>,
     lastClipboard |-> <<>>, readFailed |-> FALSE, result |-> NoState,
     displayText |-> <<>>, status |-> ""]

\* nothing copied, typed or opened yet
NewWorld ==
    [clipboard |-> Str(<<>>), fresh |-> 0, events |-> 0, ignored |-> 0,
     bgBlocked |-> FALSE]

\* the extension is installed, nothing stored, the popup closed
HistIdle ==
    /\ storedText = [currentText |-> Undefined, lastClipboard |-> Undefined]
    /\ popupOp = NoOp
    /\ contentOp = NoOp
    /\ load = NoLoad
    /\ world = NewWorld

\* the persisters and extractCopiedTextFromCopyEvent are not called
AppIdle == persister = NoPersist /\ UtilIdle /\ HistIdle

\* computeInitialState is not called
RcIdle ==
    /\ inLastClipboard = Null
    /\ inCurrentText = Null
    /\ inNewClipboard = Null
    /\ initialState = NoState
    /\ reopenedState = NoState


\* updateHistory and computeInitialState are not called
PureIdle ==
    /\ fnPhase = "idle"
    /\ inHistory = NotArr
    /\ inText = Null
    /\ inLimit = 0
    /\ out1 = <<>>
    /\ out2 = <<>>
    /\ RcIdle

FnIdle == PureIdle /\ AppIdle

TaskIds == 1..Len(tasks)

\* the state of the promise of task id; task 0 is Promise.resolve()
PromiseState(id) == IF id = 0 THEN "fulfilled" ELSE tasks[id].promise

\* faulty variant of chainTail: every run is attached to a resolved
\* promise, as in the fallback (fn) => Promise.resolve().then(fn)
chainTailResolved(ctx) == 0

\* the promise a new run is attached to: `chain` in chain.then(run, run)
chainTail(ctx) == chain[ctx]

\* faulty variant of thenReaction: chain.then(run), no rejection handler
thenReactionNoCatch(state) ==
    CASE state = "fulfilled" -> "run"
      [] state = "rejected" -> "reject"
      [] OTHER -> "wait"

\* chain.then(run, run): what the state of `chain` does to the new promise.
\* "run": run is called; "wait": nothing yet; "reject": the new promise
\* rejects and run is not called (a then without a rejection handler).
thenReaction(state) ==
    CASE state = "fulfilled" -> "run"
      [] state = "rejected" -> "run"
      [] OTHER -> "wait"

NewTask(ctx, kind, text) ==
    [ctx |-> ctx, kind |-> kind, text |-> text, pred |-> chainTail(ctx),
     pc |-> "queued", result |-> "none", promise |-> "pending",
     value |-> <<>>, inner |-> 0, response |-> "none",
     waited |-> PromiseState(chainTail(ctx)) = "pending"]

\* enqueue(task): chain = chain.then(run, run); return chain.
\* ts is `tasks` as the caller has already changed it in this step.
enqueue(ts, ctx, kind, text) ==
    /\ tasks' = Append(ts, NewTask(ctx, kind, text))
    /\ chain' = [chain EXCEPT ![ctx] = Len(ts) + 1]

\* the reaction of task i to the settlement of the promise it is chained to
Reaction(i) == thenReaction(PromiseState(tasks[i].pred))

\* the new promise rejects with the reason of `chain`; the task never runs
Propagate(i) ==
    /\ tasks' = [tasks EXCEPT ![i].pc = "done", ![i].promise = "rejected"]
    /\ UNCHANGED <<chain, started, store>>

\* a caller enqueues an async function on a serializer
EnqueueJob(ctx) ==
    /\ Len(tasks) < MaxJobs
    /\ enqueue(tasks, ctx, "job", Str(<<>>))
    /\ UNCHANGED <<started, store, fnVars>>

\* run = () => Promise.resolve().then(task): the body of the task begins.
\* The reaction of chain.then and the hop through Promise.resolve() are one
\* step: no state of the program changes between them.
StartJob(i) ==
    /\ i \in TaskIds
    /\ tasks[i].kind = "job"
    /\ tasks[i].pc = "queued"
    /\ Reaction(i) # "wait"
    /\ IF Reaction(i) = "run"
       THEN /\ tasks' = [tasks EXCEPT ![i].pc = "running"]
            /\ started' = [started EXCEPT ![tasks[i].ctx] = Append(@, i)]
            /\ UNCHANGED <<chain, store>>
       ELSE Propagate(i)
    /\ UNCHANGED fnVars

\* the async function returns (ok) or throws; the promise enqueue returned
\* follows it
FinishJob(i, ok) ==
    /\ i \in TaskIds
    /\ tasks[i].kind = "job"
    /\ tasks[i].pc = "running"
    /\ tasks' = [tasks EXCEPT ![i].pc = "done",
                              ![i].result = IF ok THEN "ok" ELSE "failed",
                              ![i].promise = IF ok THEN "fulfilled" ELSE "rejected"]
    /\ UNCHANGED <<chain, started, store, fnVars>>

SerialInit == FnIdle /\ QueueInit

SerialNext ==
    \/ \E ctx \in TestQueues : EnqueueJob(ctx)
    \/ \E i \in 1..MaxJobs : StartJob(i)
    \/ \E i \in 1..MaxJobs, ok \in BOOLEAN : FinishJob(i, ok)

SpecSerial == SerialInit /\ [][SerialNext]_vars

\* The event loop runs every ready reaction, and (the hypothesis of the
\* liveness claims) every started task settles.
SerialFairness ==
    \A i \in 1..MaxJobs :
        /\ WF_vars(StartJob(i))
        /\ WF_vars(\E ok \in BOOLEAN : FinishJob(i, ok))

SpecSerialFair == SpecSerial /\ SerialFairness

---------------------------------------------------------------------------
(* The extension's contexts: the popup (popup.js), a page's content script *)
(* (content-script.js) and the background service worker (background.js).  *)
(* Each has its own serializer and all share chrome.storage.local.  A step *)
(* is one turn of a context's event loop: a handler, or the continuation   *)
(* that a storage callback or a settled promise resumes.                   *)
(***************************************************************************)
HISTORY_LIMIT == 10

\* the texts the handlers are called with
SysTexts == {Str(<<"a">>), Str(<<" ", "b">>), Str(<<"\t">>)}

\* tasks begun by a handler (not by another task)
NumOps ==
    Cardinality({i \in TaskIds : \A m \in TaskIds : tasks[m].inner # i})

\* addToHistory(text) up to its await: `if (!t) return`, else the append
\* task is enqueued on the context's serializer
addToHistory(ts, ctx, text) ==
    LET t == trimmedText(text)
    IN  IF t = <<>>
        THEN tasks' = ts /\ chain' = chain
        ELSE enqueue(ts, ctx, "append", Str(t))

\* popup.js: the debounced input handler and the paste handler call
\* addToHistory(trimmed)
PopupAddToHistory(text) ==
    /\ NumOps < MaxOps
    /\ addToHistory(tasks, "popup", text)
    /\ UNCHANGED <<started, store, fnVars>>

\* content-script.js, the copy listener: `if (!text) return`, then
\* addToHistory(text)
ContentCopy(text) ==
    /\ NumOps < MaxOps
    /\ IF trimmedText(text) = <<>>
       THEN UNCHANGED <<tasks, chain>>
       ELSE addToHistory(tasks, "content", text)
    /\ UNCHANGED <<started, store, fnVars>>

\* the append task begins: getHistory() calls storageGet
StartAppend(i) ==
    /\ i \in TaskIds
    /\ tasks[i].kind = "append"
    /\ tasks[i].pc = "queued"
    /\ Reaction(i) # "wait"
    /\ IF Reaction(i) = "run"
       THEN /\ tasks' = [tasks EXCEPT ![i].pc = "reading"]
            /\ started' = [started EXCEPT ![tasks[i].ctx] = Append(@, i)]
            /\ UNCHANGED <<chain, store>>
       ELSE Propagate(i)
    /\ UNCHANGED fnVars

\* popup.js setHistory(history) up to storageSet: the coerced queue, cut
\* to HISTORY_LIMIT from the head
setHistoryQueue(history) ==
    LET queue == coerceTextArray(asArray(history))
    IN  IF Len(queue) > HISTORY_LIMIT
        THEN spliceHead(queue, Len(queue) - HISTORY_LIMIT)
        ELSE queue

\* the storageGet callback: history = coerceTextArray(saved[STORAGE_KEY]),
\* updated = updateHistory(history, t, HISTORY_LIMIT), then storageSet is
\* called (in the popup through setHistory)
ReadDone(i) ==
    /\ i \in TaskIds
    /\ tasks[i].pc = "reading"
    /\ LET history == coerceTextArray(store)
           updated == updateHistory(asArray(history), tasks[i].text, HISTORY_LIMIT)
           written == IF tasks[i].ctx = "popup"
                      THEN setHistoryQueue(updated) ELSE updated
       IN  tasks' = [tasks EXCEPT ![i].pc = "writing", ![i].value = written]
    /\ UNCHANGED <<chain, started, store, fnVars>>

\* the storageSet callback: without chrome.runtime.lastError the value is
\* stored and the task fulfils; with it nothing is stored and the task
\* rejects
WriteDone(i, ok) ==
    /\ i \in TaskIds
    /\ tasks[i].pc = "writing"
    /\ store' = IF ok THEN asArray(tasks[i].value) ELSE store
    /\ tasks' = [tasks EXCEPT ![i].pc = "done",
                              ![i].result = IF ok THEN "ok" ELSE "failed",
                              ![i].promise = IF ok THEN "fulfilled" ELSE "rejected"]
    /\ UNCHANGED <<chain, started, fnVars>>

\* message?.text ?? ""
messageText(text) ==
    IF text.k \in {"null", "undefined"} THEN Str(<<>>) ELSE text

\* background.js, the onMessage listener for a CLIPBOARD_ADD message: the
\* task is enqueued and the listener returns true
BgMessage(text) ==
    /\ NumOps < MaxOps
    /\ enqueue(tasks, "background", "message", messageText(text))
    /\ UNCHANGED <<started, store, fnVars>>

\* the message task begins: `await addToHistory(message.text)`, which
\* returns at once for an empty text and otherwise enqueues the append task
\* on the same serializer and awaits it
StartMessage(i) ==
    /\ i \in TaskIds
    /\ tasks[i].kind = "message"
    /\ tasks[i].pc = "queued"
    /\ Reaction(i) # "wait"
    /\ IF Reaction(i) = "run"
       THEN /\ started' = [started EXCEPT ![tasks[i].ctx] = Append(@, i)]
            /\ addToHistory(
                   [tasks EXCEPT ![i].pc = "awaiting",
                                 ![i].inner =
                                     IF trimmedText(tasks[i].text) = <<>>
                                     THEN 0 ELSE Len(tasks) + 1],
                   "background", tasks[i].text)
            /\ UNCHANGED store
       ELSE Propagate(i)
    /\ UNCHANGED fnVars

\* addToHistory has settled: sendResponse({ ok: true }), or in the catch
\* sendResponse({ ok: false }); the message task fulfils
MessageRespond(i) ==
    /\ i \in TaskIds
    /\ tasks[i].kind = "message"
    /\ tasks[i].pc = "awaiting"
    /\ PromiseState(tasks[i].inner) # "pending"
    /\ tasks' = [tasks EXCEPT
           ![i].pc = "done", ![i].result = "ok", ![i].promise = "fulfilled",
           ![i].response =
               IF PromiseState(tasks[i].inner) = "fulfilled" THEN "ok" ELSE "fail"]
    /\ UNCHANGED <<chain, started, store, fnVars>>

SysInit == FnIdle /\ QueueInit

SysNext ==
    \/ \E text \in SysTexts : PopupAddToHistory(text)
    \/ \E text \in SysTexts : ContentCopy(text)
    \/ \E text \in SysTexts \cup {Undefined} : BgMessage(text)
    \/ \E i \in 1..(2 * MaxOps) : StartAppend(i)
    \/ \E i \in 1..(2 * MaxOps) : ReadDone(i)
    \/ \E i \in 1..(2 * MaxOps), ok \in BOOLEAN : WriteDone(i, ok)
    \/ \E i \in 1..(2 * MaxOps) : StartMessage(i)
    \/ \E i \in 1..(2 * MaxOps) : MessageRespond(i)

SpecSys == SysInit /\ [][SysNext]_vars

\* Every context's event loop runs its ready continuations, and every
\* storage read and write calls back.
SysFairness ==
    \A i \in 1..(2 * MaxOps) :
        /\ WF_vars(StartAppend(i))
        /\ WF_vars(ReadDone(i))
        /\ WF_vars(\E ok \in BOOLEAN : WriteDone(i, ok))
        /\ WF_vars(StartMessage(i))
        /\ WF_vars(MessageRespond(i))

SpecSysFair == SpecSys /\ SysFairness

---------------------------------------------------------------------------
(* Inputs of the pure functions. *)
RawItems ==
    {Str(<<"a">>), Str(<<" ", "a", "\t">>), Str(<<"b">>), Str(<<"c">>),
     Str(<<" ">>), Null}

RawTexts == RawItems \cup {Undefined, Str(<<>>), Str(<<"b", " ">>), Num(<<"7">>)}

RECURSIVE SeqsUpTo(_, _)
SeqsUpTo(S, n) ==
    IF n = 0 THEN {<<>>}
    ELSE LET shorter == SeqsUpTo(S, n - 1)
         IN  shorter \cup {Append(q, x) : q \in shorter, x \in S}

RawHistories == {Arr(q) : q \in SeqsUpTo(RawItems, MaxLen)} \cup {NotArr}

Limits == (-1)..MaxLimit

FnInit ==
    /\ fnPhase = "input"
    /\ inHistory \in RawHistories
    /\ inText \in RawTexts
    /\ inLimit \in Limits
    /\ out1 = <<>>
    /\ out2 = <<>>
    /\ RcIdle
    /\ AppIdle
    /\ QueueInit

\* out1 = updateHistory(history, text, limit)
Upsert ==
    /\ fnPhase = "input"
    /\ fnPhase' = "once"
    /\ out1' = updateHistory(inHistory, inText, inLimit)
    /\ UNCHANGED <<inHistory, inText, inLimit, out2, rcVars, appVars, queueVars>>

\* out2 = updateHistory(out1, text, limit)
UpsertAgain ==
    /\ fnPhase = "once"
    /\ fnPhase' = "twice"
    /\ out2' = updateHistory(asArray(out1), inText, inLimit)
    /\ UNCHANGED <<inHistory, inText, inLimit, out1, rcVars, appVars, queueVars>>

FnNext == Upsert \/ UpsertAgain

SpecFn == FnInit /\ [][FnNext]_vars

---------------------------------------------------------------------------
(* Inputs of computeInitialState. *)
RcItems == {Str(<<"a">>), Str(<<"b">>), Str(<<"c">>), Str(<<" ">>)}

RcTexts ==
    {Undefined, Str(<<" ">>), Str(<<"a">>), Str(<<" ", "a", "\t">>),
     Str(<<"b">>), Str(<<"d">>)}

RcHistories == {Arr(q) : q \in SeqsUpTo(RcItems, MaxLen)} \cup {NotArr}

\* <<n>>: opts.limit is n; <<>>: opts has no limit
RcLimits == {<<n>> : n \in Limits} \cup {<<>>}

\* the opts object handed to computeInitialState
opts ==
    [lastClipboard |-> inLastClipboard, currentText |-> inCurrentText,
     newClipboard |-> inNewClipboard, history |-> inHistory,
     limit |-> inLimit]

RcInit ==
    /\ fnPhase = "input"
    /\ inLastClipboard \in RcTexts
    /\ inCurrentText \in RcTexts
    /\ inNewClipboard \in RcTexts
    /\ inHistory \in RcHistories
    /\ inLimit \in RcLimits
    /\ initialState = NoState
    /\ reopenedState = NoState
    /\ inText = Null
    /\ out1 = <<>>
    /\ out2 = <<>>
    /\ AppIdle
    /\ QueueInit

\* initialState = computeInitialState(opts)
ComputeInitialState ==
    /\ fnPhase = "input"
    /\ fnPhase' = "once"
    /\ initialState' = computeInitialState(opts)
    /\ UNCHANGED <<inHistory, inText, inLimit, out1, out2,
                   inLastClipboard, inCurrentText, inNewClipboard,
                   reopenedState, appVars, queueVars>>

\* the opts object of the next open when nothing else has changed: the
\* three values loadInitialState stored, the same clipboard and limit
reopenedOpts ==
    [lastClipboard |-> Str(initialState.newLastClipboard),
     currentText |-> Str(initialState.newCurrentText),
     newClipboard |-> inNewClipboard,
     history |-> asArray(initialState.newHistory),
     limit |-> inLimit]

\* reopenedState = computeInitialState(reopenedOpts)
ComputeInitialStateAgain ==
    /\ fnPhase = "once"
    /\ fnPhase' = "twice"
    /\ reopenedState' = computeInitialState(reopenedOpts)
    /\ UNCHANGED <<inHistory, inText, inLimit, out1, out2,
                   inLastClipboard, inCurrentText, inNewClipboard,
                   initialState, appVars, queueVars>>

RcNext == ComputeInitialState \/ ComputeInitialStateAgain

SpecRc == RcInit /\ [][RcNext]_vars

---------------------------------------------------------------------------
(* The quota-aware persisters: saveHistory (popup.js), pushToHistory       *)
(* (part_002) and saveToHistory (part_001).  They differ in what they are  *)
(* handed and in what they return; the retry loop is the same.             *)

MaxCap == 2        \* largest number of elements a store with a quota accepts

\* the message of chrome.runtime.lastError after a rejected set
QuotaMessage == "QUOTA_BYTES quota exceeded"
OtherMessage == "IO error"

\* /quota/i.test(err.message)
isQuotaError(err) == err = QuotaMessage

\* the two lines showStatus is called with
ErrorStatus == "Could not save to history (storage full?)"
EvictedStatus == "Storage full: dropped oldest history item(s)"

\* arr.slice(begin), begin negative counting from the end
slice(arr, begin) ==
    LET from == IF begin < 0
                THEN (IF Len(arr) + begin < 0 THEN 0 ELSE Len(arr) + begin)
                ELSE (IF begin > Len(arr) THEN Len(arr) ELSE begin)
    IN  SubSeq(arr, from + 1, Len(arr))

\* the candidate queue of the first write: at most HISTORY_LIMIT elements
enforceLimit(queue) ==
    IF Len(queue) > HISTORY_LIMIT THEN slice(queue, -HISTORY_LIMIT) ELSE queue

\* faulty variant of canEvict: a quota error is retried down to nothing
canEvictAlways(err, finalQueue) == isQuotaError(err)

\* faulty variant of canEvict: every error is retried
canEvictAnyError(err, finalQueue) == Len(finalQueue) > 1

\* the catch clause retries: isQuotaError(err) && finalQueue.length > 1
canEvict(err, finalQueue) == isQuotaError(err) /\ Len(finalQueue) > 1

\* faulty variant of evictOldest: the newest element is dropped
evictNewest(finalQueue) == SubSeq(finalQueue, 1, Len(finalQueue) - 1)

\* finalQueue.slice(1)
evictOldest(finalQueue) == slice(finalQueue, 1)

\* faulty variant of returnedOnSuccess: the queue as it was handed over
returnedOnSuccessUnevicted(variant, queue, finalQueue) ==
    IF variant = "saveToHistory"
    THEN [defined |-> FALSE, queue |-> <<>>]
    ELSE [defined |-> TRUE, queue |-> queue]

\* what the call returns after a write that was accepted
returnedOnSuccess(variant, queue, finalQueue) ==
    IF variant = "saveToHistory"
    THEN [defined |-> FALSE, queue |-> <<>>]
    ELSE [defined |-> TRUE, queue |-> finalQueue]

\* what the call returns from the catch clause: `return existingQueue` in
\* pushToHistory, a bare `return` in saveHistory and saveToHistory
returnedOnAbort(variant, existingQueue) ==
    IF variant = "pushToHistory"
    THEN [defined |-> TRUE, queue |-> existingQueue]
    ELSE [defined |-> FALSE, queue |-> <<>>]

\* the answers of the store to a write of queue: a store with a quota of
\* `capacity` elements, a store that rejects everything for another reason,
\* or a store free to answer anything
storeAnswers(mode, capacity, queue) ==
    CASE mode = "capacity" ->
             IF Len(queue) > capacity THEN {QuotaMessage} ELSE {"ok"}
      [] mode = "broken" -> {OtherMessage}
      [] OTHER -> {"ok", QuotaMessage, OtherMessage}

PersistModes ==
    {<<"capacity", k>> : k \in 0..MaxCap} \cup {<<"broken", 0>>, <<"free", 0>>}

\* a stored history of HISTORY_LIMIT elements: "b", "c", ...
FullStore == Arr([i \in 1..HISTORY_LIMIT |-> Str(<<Alphabet[i + 1]>>)])

PersistStores ==
    {NotArr, Arr(<<Str(<<"a">>)>>),
     Arr(<<Str(<<"a">>), Str(<<"b">>), Str(<<"c">>)>>), FullStore}

PersistTexts ==
    {Str(<<" ">>), Str(<<"a">>), Str(<<" ", "b", "\t">>), Str(<<"d">>)}

PersistInit ==
    /\ PureIdle
    /\ UtilIdle
    /\ HistIdle
    /\ tasks = <<>>
    /\ chain = [c \in Contexts |-> 0]
    /\ started = [c \in Contexts |-> <<>>]
    /\ store \in PersistStores
    /\ \E m \in PersistModes :
           \/ \E history \in RcHistories :
                  persister = [NoPersist EXCEPT
                                  !.variant = "saveHistory", !.phase = "input",
                                  !.call = 1, !.mode = m[1], !.capacity = m[2],
                                  !.before = store, !.history = history]
           \/ \E v \in {"pushToHistory", "saveToHistory"}, text \in PersistTexts :
                  persister = [NoPersist EXCEPT
                                  !.variant = v, !.phase = "input",
                                  !.call = 1, !.mode = m[1], !.capacity = m[2],
                                  !.before = store, !.text = text]

\* saveHistory(history), up to the first storageSet
SaveHistory ==
    /\ persister.phase = "input"
    /\ persister.variant = "saveHistory"
    /\ LET queue == coerceTextArray(persister.history)
       IN  persister' = [persister EXCEPT
                            !.phase = "writing", !.queue = queue,
                            !.finalQueue = enforceLimit(queue)]
    /\ UNCHANGED <<fnPhase, inHistory, inText, inLimit, out1, out2, rcVars,
                   utilVars, histVars, queueVars>>

\* pushToHistory(text) / saveToHistory(text), up to the first storageSet
PushToHistory ==
    /\ persister.phase = "input"
    /\ persister.variant \in {"pushToHistory", "saveToHistory"}
    /\ LET trimmed == trimmedText(persister.text)
           existingQueue == coerceTextArray(store)
           nextQueue == filterAndPush(existingQueue, trimmed)
       IN  IF trimmed = <<>>
           THEN persister' = [persister EXCEPT
                    !.phase = "returned",
                    !.returned =
                        IF persister.variant = "pushToHistory"
                        THEN [defined |-> TRUE, queue |-> existingQueue]
                        ELSE [defined |-> FALSE, queue |-> <<>>]]
           ELSE persister' = [persister EXCEPT
                    !.phase = "writing", !.existingQueue = existingQueue,
                    !.queue = nextQueue,
                    !.finalQueue = enforceLimit(nextQueue)]
    /\ UNCHANGED <<fnPhase, inHistory, inText, inLimit, out1, out2, rcVars,
                   utilVars, histVars, queueVars>>

\* one turn of the while (true) loop: the store answers the storageSet
StorageSetAnswered(answer) ==
    /\ persister.phase = "writing"
    /\ answer \in storeAnswers(persister.mode, persister.capacity,
                               persister.finalQueue)
    /\ LET tried == [persister EXCEPT
                        !.attempts = @ + 1,
                        !.lastError = IF answer = "ok" THEN "" ELSE answer,
                        !.lastLength = Len(persister.finalQueue)]
       IN  IF answer = "ok"
           THEN /\ store' = asArray(persister.finalQueue)
                /\ persister' = [tried EXCEPT
                       !.phase = "returned",
                       !.status = IF persister.didEvictForQuota
                                  THEN EvictedStatus ELSE @,
                       !.returned = returnedOnSuccess(persister.variant,
                                        persister.queue, persister.finalQueue)]
           ELSE /\ store' = store
                /\ IF canEvict(answer, persister.finalQueue)
                   THEN persister' = [tried EXCEPT
                            !.finalQueue = evictOldest(persister.finalQueue),
                            !.didEvictForQuota = TRUE]
                   ELSE persister' = [tried EXCEPT
                            !.phase = "returned", !.aborted = TRUE,
                            !.status = ErrorStatus,
                            !.returned = returnedOnAbort(persister.variant,
                                             persister.existingQueue)]
    /\ UNCHANGED <<fnPhase, inHistory, inText, inLimit, out1, out2, rcVars,
                   utilVars, histVars, tasks, chain, started>>

\* saveHistory(q) again, q the queue the first call returned
SaveHistoryAgain ==
    /\ persister.phase = "returned"
    /\ persister.variant = "saveHistory"
    /\ persister.call = 1
    /\ ~persister.aborted
    /\ LET queue == coerceTextArray(asArray(persister.returned.queue))
       IN  persister' = [persister EXCEPT
                            !.phase = "writing", !.call = 2,
                            !.firstReturned = persister.returned.queue,
                            !.before = store,
                            !.history = asArray(persister.returned.queue),
                            !.queue = queue,
                            !.finalQueue = enforceLimit(queue),
                            !.didEvictForQuota = FALSE, !.attempts = 0,
                            !.lastError = "", !.lastLength = 0]
    /\ UNCHANGED <<fnPhase, inHistory, inText, inLimit, out1, out2, rcVars,
                   utilVars, histVars, queueVars>>

PersistNext ==
    \/ SaveHistory
    \/ PushToHistory
    \/ \E answer \in {"ok", QuotaMessage, OtherMessage} :
           StorageSetAnswered(answer)
    \/ SaveHistoryAgain

SpecPersist == PersistInit /\ [][PersistNext]_vars

\* a call that has begun runs on: chrome answers every storageSet
PersistFairness ==
    /\ WF_vars(SaveHistory)
    /\ WF_vars(PushToHistory)
    /\ WF_vars(\E answer \in {"ok", QuotaMessage, OtherMessage} :
                   StorageSetAnswered(answer))

SpecPersistFair == SpecPersist /\ PersistFairness

---------------------------------------------------------------------------
(* extractCopiedTextFromCopyEvent, and coerceTextArray called on its own. *)

\* String.prototype.toUpperCase on the tag names of the model
toUpperCase(tag) ==
    CASE tag = "textarea" -> "TEXTAREA"
      [] tag = "input" -> "INPUT"
      [] tag = "div" -> "DIV"
      [] OTHER -> tag

\* String.prototype.slice(start, end) for 0 <= start, 0 <= end
sliceRange(value, start, end) ==
    LET to == IF end > Len(value) THEN Len(value) ELSE end
    IN  IF start >= to THEN <<>> ELSE SubSeq(value, start + 1, to)

\* the selected range of an input or textarea, "" for anything else
fromTextControl(el) ==
    IF el.isNull THEN Str(<<>>)
    ELSE LET tag == toUpperCase(el.tagName)
             value == IF el.value.k = "string" THEN el.value.s ELSE <<>>
         IN  IF tag # "TEXTAREA" /\ tag # "INPUT" THEN Str(<<>>)
             ELSE IF ~el.numeric THEN Str(<<>>)
             ELSE IF el.selectionStart = el.selectionEnd THEN Str(<<>>)
             ELSE Str(sliceRange(value, el.selectionStart, el.selectionEnd))

\* faulty variant of firstNonEmpty: the last candidate that is not empty
lastNonEmpty(candidates) ==
    LET found == SelectSeq(candidates, LAMBDA t : t # <<>>)
    IN  IF found = <<>> THEN <<>> ELSE found[Len(found)]

\* the cascade of `if (t) return t`, ending with `return ""`
firstNonEmpty(candidates) ==
    LET found == SelectSeq(candidates, LAMBDA t : t # <<>>)
    IN  IF found = <<>> THEN <<>> ELSE found[1]

extractCopiedTextFromCopyEvent(e) ==
    LET fromEvent == IF e.getDataThrows THEN <<>>
                     ELSE trimmedText(e.clipboardData)
        tFromActive == trimmedText(fromTextControl(e.activeElement))
        tFromTarget == trimmedText(fromTextControl(e.target))
        fromSelection == IF e.getSelectionThrows THEN <<>>
                         ELSE trimmedText(e.selection)
    IN  IF fromEvent # <<>> THEN fromEvent
        ELSE IF ~e.hasDocument THEN <<>>
        ELSE firstNonEmpty(<<tFromActive, tFromTarget, fromSelection>>)

\* the elements of a value handed to coerceTextArray
CoerceItems == RawItems \cup {Undefined, Str(<<>>), Num(<<"7">>)}

CoerceValues == {Arr(q) : q \in SeqsUpTo(CoerceItems, MaxLen)} \cup {NotArr}

TextControls ==
    {NoElement,
     [isNull |-> FALSE, tagName |-> "TEXTAREA", value |-> Str(<<"b", " ", "c">>),
      selectionStart |-> 0, selectionEnd |-> 2, numeric |-> TRUE],
     [isNull |-> FALSE, tagName |-> "input", value |-> Str(<<"b", " ", "c">>),
      selectionStart |-> 1, selectionEnd |-> 3, numeric |-> TRUE],
     [isNull |-> FALSE, tagName |-> "INPUT", value |-> Str(<<"b", " ", "c">>),
      selectionStart |-> 1, selectionEnd |-> 2, numeric |-> TRUE],
     [isNull |-> FALSE, tagName |-> "TEXTAREA", value |-> Str(<<"b", " ", "c">>),
      selectionStart |-> 2, selectionEnd |-> 2, numeric |-> TRUE],
     [isNull |-> FALSE, tagName |-> "INPUT", value |-> Str(<<>>),
      selectionStart |-> 0, selectionEnd |-> 0, numeric |-> FALSE],
     [isNull |-> FALSE, tagName |-> "DIV", value |-> Str(<<"e">>),
      selectionStart |-> 0, selectionEnd |-> 1, numeric |-> TRUE]}

CopyEvents ==
    [given : {TRUE},
     getDataThrows : BOOLEAN,
     clipboardData : {Undefined, Str(<<" ">>), Str(<<" ", "a", "\t">>)},
     hasDocument : BOOLEAN,
     activeElement : TextControls,
     target : TextControls,
     getSelectionThrows : BOOLEAN,
     selection : {Undefined, Str(<<" ">>), Str(<<" ", "d">>)}]

UtilInit ==
    /\ fnPhase = "input"
    /\ \/ inHistory \in CoerceValues /\ copyEvent = NoEvent
       \/ inHistory = NotArr /\ copyEvent \in CopyEvents
    /\ extracted = <<>>
    /\ inText = Null
    /\ inLimit = 0
    /\ out1 = <<>>
    /\ out2 = <<>>
    /\ RcIdle
    /\ persister = NoPersist
    /\ HistIdle
    /\ QueueInit

\* out1 = coerceTextArray(value)
Coerce ==
    /\ fnPhase = "input"
    /\ ~copyEvent.given
    /\ fnPhase' = "once"
    /\ out1' = coerceTextArray(inHistory)
    /\ UNCHANGED <<inHistory, inText, inLimit, out2, rcVars, appVars,
                   queueVars>>

\* extracted = extractCopiedTextFromCopyEvent(e, doc)
ExtractCopiedText ==
    /\ fnPhase = "input"
    /\ copyEvent.given
    /\ fnPhase' = "once"
    /\ extracted' = extractCopiedTextFromCopyEvent(copyEvent)
    /\ UNCHANGED <<inHistory, inText, inLimit, out1, out2, rcVars, copyEvent,
                   histVars, persister, queueVars>>

UtilNext == Coerce \/ ExtractCopiedText

SpecUtil == UtilInit /\ [][UtilNext]_vars

---------------------------------------------------------------------------
(* The persisted history over the life of the extension: the popup         *)
(* (addToHistory, moveToEnd, loadInitialState), the content script (copy   *)
(* listener) and the background (CLIPBOARD_ADD listener) on one            *)
(* chrome.storage.local.  Each context's serializer is taken as C2 shows   *)
(* it: the body of a task begins when the context's previous task has      *)
(* settled, so a context has one history task running at a time;           *)
(* loadInitialState does not go through the serializer.                    *)

MaxTexts == 11     \* distinct texts typed or copied
MaxEvents == 2     \* happenings other than a copy in a page that is stored:
                   \* the popup opened, a text typed, an entry selected, a
                   \* copy outside the pages, a copy of white space, a
                   \* message to the background,
                   \* a storageSet refused, a read that the content
                   \* script or the opening popup takes between another
                   \* task's read and its write

\* the k-th text, as typed or copied: every other one with white space
\* around it
rawText(k) ==
    IF k % 2 = 0 THEN Str(<<" ", Alphabet[k], "\t">>) ELSE Str(<<Alphabet[k]>>)

\* Array.prototype.indexOf, counting from 1; 0 when absent
indexOf(arr, x) ==
    IF \E i \in 1..Len(arr) : arr[i] = x
    THEN CHOOSE i \in 1..Len(arr) :
             arr[i] = x /\ \A j \in 1..(i - 1) : arr[j] # x
    ELSE 0

\* a faulty variant of spliceAndPush: the entry is pushed and not removed
pushWithoutSplice(history, index, trimmed) == Append(history, trimmed)

\* history.splice(index, 1); history.push(trimmed)
spliceAndPush(history, index, trimmed) ==
    Append(SubSeq(history, 1, index - 1)
               \o SubSeq(history, index + 1, Len(history)), trimmed)

\* the queue moveToEnd hands to storageSet
moveToEndQueue(history, trimmed) ==
    IF indexOf(history, trimmed) = 0
    THEN setHistoryQueue(updateHistory(asArray(history), Str(trimmed),
                                       HISTORY_LIMIT))
    ELSE setHistoryQueue(spliceAndPush(history, indexOf(history, trimmed),
                                       trimmed))

\* the queue the popup's addToHistory hands to storageSet
addToHistoryQueue(history, trimmed) ==
    setHistoryQueue(updateHistory(asArray(history), Str(trimmed),
                                  HISTORY_LIMIT))

\* some read-modify-write of the store is between its read and its write
InFlight ==
    \/ popupOp.phase = "set"
    \/ contentOp.phase = "set"
    \/ load.phase \in {"read", "writing"}

\* a faulty variant of noText: every text is taken
noTextNever(trimmed) == FALSE

\* `if (!trimmed) return` in addToHistory and moveToEnd, `if (!text) return`
\* in the copy listener
noText(trimmed) == trimmed = <<>>

\* a request that was dropped for its empty text is counted
ignore == [world EXCEPT !.events = @ + 1, !.ignored = @ + 1]

\* n more happenings are counted
spend(n) == [world EXCEPT !.events = @ + n]

MaySpend(n) == world.events + n <= MaxEvents

\* a storage read taken during another task's window is counted
overlap == IF InFlight THEN 1 ELSE 0

\* a refused storageSet is counted
refusal(ok) == IF ok THEN 0 ELSE 1

HistInit ==
    /\ PureIdle
    /\ UtilIdle
    /\ persister = NoPersist
    /\ HistIdle
    /\ QueueInit

\* the shortcut or the toolbar button opens the popup: DOMContentLoaded
\* calls loadInitialState, which reads the three keys
LoadRead ==
    /\ load.phase \in {"closed", "done", "rejected"}
    /\ popupOp.phase = "idle"
    /\ MaySpend(1 + overlap)
    /\ load' = [NoLoad EXCEPT
                   !.phase = "read",
                   !.history = coerceTextArray(store),
                   !.currentText = trimmedText(storedText.currentText),
                   !.lastClipboard = trimmedText(storedText.lastClipboard)]
    /\ world' = spend(1 + overlap)
    /\ UNCHANGED <<fnPhase, inHistory, inText, inLimit, out1, out2, rcVars,
                   utilVars, storedText, popupOp, contentOp, persister,
                   queueVars>>

\* navigator.clipboard.readText() settles; computeInitialState is applied,
\* the text is shown and the write-back storageSet is called
LoadClipboard(ok) ==
    /\ load.phase = "read"
    /\ LET newClipboard == IF ok THEN Str(trimmedText(world.clipboard))
                           ELSE Str(<<>>)
           result == computeInitialState(
                         [lastClipboard |-> Str(load.lastClipboard),
                          currentText |-> Str(load.currentText),
                          newClipboard |-> newClipboard,
                          history |-> asArray(load.history),
                          limit |-> <<HISTORY_LIMIT>>])
       IN  load' = [load EXCEPT
                       !.phase = "writing", !.readFailed = ~ok,
                       !.result = result,
                       !.displayText = result.displayText]
    /\ UNCHANGED <<fnPhase, inHistory, inText, inLimit, out1, out2, rcVars,
                   utilVars, storedText, popupOp, contentOp, world, persister,
                   queueVars>>

\* the write-back storageSet settles: the three keys are stored, or with
\* chrome.runtime.lastError nothing is and loadInitialState rejects
LoadWriteBack(ok) ==
    /\ load.phase = "writing"
    /\ MaySpend(refusal(ok))
    /\ world' = spend(refusal(ok))
    /\ IF ok
       THEN /\ store' = asArray(load.result.newHistory)
            /\ storedText' =
                   [currentText |-> Str(load.result.newCurrentText),
                    lastClipboard |-> Str(load.result.newLastClipboard)]
            /\ load' = [load EXCEPT
                           !.phase = "done",
                           !.status = IF load.result.clipboardChanged
                                      THEN "Loaded from clipboard" ELSE @]
       ELSE /\ load' = [load EXCEPT !.phase = "rejected"]
            /\ UNCHANGED <<store, storedText>>
    /\ UNCHANGED <<fnPhase, inHistory, inText, inLimit, out1, out2, rcVars,
                   utilVars, popupOp, contentOp, persister,
                   tasks, chain, started>>

\* a popup handler calls addToHistory(text) or moveToEnd(text): the task
\* reads the history and calls storageSet with the new queue
PopupBegin(kind, text) ==
    /\ load.phase # "closed"
    /\ popupOp.phase = "idle"
    /\ LET trimmed == trimmedText(text)
           history == coerceTextArray(store)
       IN  IF noText(trimmed)
           THEN /\ MaySpend(1)
                /\ world' = ignore
                /\ UNCHANGED popupOp
           ELSE /\ MaySpend(1)
                /\ popupOp' =
                       [phase |-> "set", kind |-> kind, text |-> trimmed,
                        next |-> IF kind = "moveToEnd"
                                 THEN moveToEndQueue(history, trimmed)
                                 ELSE addToHistoryQueue(history, trimmed)]
                /\ world' = IF kind = "moveToEnd"
                            THEN spend(1)
                            ELSE [spend(1) EXCEPT !.fresh = @ + 1]
    /\ UNCHANGED <<fnPhase, inHistory, inText, inLimit, out1, out2, rcVars,
                   utilVars, storedText, contentOp, load, persister,
                   queueVars>>

\* the input and paste handlers: the text of the textarea
PopupTyped ==
    \E text \in {Str(<<" ">>)}
            \cup {rawText(k) : k \in {world.fresh + 1} \cap 1..MaxTexts} :
        PopupBegin("addToHistory", text)

\* the change handler of the dropdown calls moveToEnd with an entry the
\* dropdown shows; moveToEnd is also called with white space
PopupSelected ==
    /\ coerceTextArray(store) # <<>>
    /\ \E val \in {Str(coerceTextArray(store)[1]), Str(<<Alphabet[1]>>),
                   Str(<<" ">>)} :
           PopupBegin("moveToEnd", val)

\* the popup's storageSet of the history settles; when it was accepted the
\* handler goes on to storageSet({ currentText })
PopupSet(ok) ==
    /\ popupOp.phase = "set"
    /\ MaySpend(refusal(ok))
    /\ world' = spend(refusal(ok))
    /\ store' = IF ok THEN asArray(popupOp.next) ELSE store
    /\ popupOp' = IF ok THEN [popupOp EXCEPT !.phase = "currentText"]
                  ELSE NoOp
    /\ UNCHANGED <<fnPhase, inHistory, inText, inLimit, out1, out2, rcVars,
                   utilVars, storedText, contentOp, load, persister,
                   tasks, chain, started>>

\* storageSet({ currentText }) settles
PopupCurrentText(ok) ==
    /\ popupOp.phase = "currentText"
    /\ MaySpend(refusal(ok))
    /\ world' = spend(refusal(ok))
    /\ storedText' = IF ok
                     THEN [storedText EXCEPT !.currentText = Str(popupOp.text)]
                     ELSE storedText
    /\ popupOp' = NoOp
    /\ UNCHANGED <<fnPhase, inHistory, inText, inLimit, out1, out2, rcVars,
                   utilVars, contentOp, load, persister, queueVars>>

\* a copy in a page: the clipboard takes the text, the content script's
\* listener extracts it and addToHistory reads the history and calls
\* storageSet with updateHistory(history, t, HISTORY_LIMIT)
ContentCopied ==
    /\ contentOp.phase = "idle"
    /\ \E text \in {Str(<<" ">>)}
               \cup {rawText(k) : k \in {world.fresh + 1} \cap 1..MaxTexts} :
           LET t == trimmedText(text)
           IN  IF noText(t)
               THEN /\ MaySpend(1)
                    /\ world' = [ignore EXCEPT !.clipboard = text]
                    /\ UNCHANGED contentOp
               ELSE /\ MaySpend(overlap)
                    /\ contentOp' =
                           [phase |-> "set", kind |-> "addToHistory",
                            text |-> t,
                            next |-> updateHistory(
                                         asArray(coerceTextArray(store)),
                                         Str(t), HISTORY_LIMIT)]
                    /\ world' = [spend(overlap) EXCEPT
                                    !.clipboard = text, !.fresh = @ + 1]
    /\ UNCHANGED <<fnPhase, inHistory, inText, inLimit, out1, out2, rcVars,
                   utilVars, storedText, popupOp, load, persister, queueVars>>

\* the content script's storageSet settles
ContentSet(ok) ==
    /\ contentOp.phase = "set"
    /\ MaySpend(refusal(ok))
    /\ world' = spend(refusal(ok))
    /\ store' = IF ok THEN asArray(contentOp.next) ELSE store
    /\ contentOp' = NoOp
    /\ UNCHANGED <<fnPhase, inHistory, inText, inLimit, out1, out2, rcVars,
                   utilVars, storedText, popupOp, load, persister,
                   tasks, chain, started>>

\* a copy outside any page with the content script: only the clipboard
\* takes the text
CopiedElsewhere ==
    /\ world.fresh < MaxTexts
    /\ MaySpend(1)
    /\ world' = [spend(1) EXCEPT
                    !.clipboard = rawText(world.fresh + 1), !.fresh = @ + 1]
    /\ UNCHANGED <<fnPhase, inHistory, inText, inLimit, out1, out2, rcVars,
                   utilVars, storedText, popupOp, contentOp, load, persister,
                   queueVars>>

\* the background receives CLIPBOARD_ADD: addToHistory returns at once
\* for an empty text; for another text the listener's task awaits
\* addToHistory, whose task waits behind it on the same serializer (C6), so
\* nothing is read or written
BgClipboardAdd ==
    /\ ~world.bgBlocked
    /\ MaySpend(1)
    /\ \E text \in {Str(<<"\t">>), Str(<<Alphabet[1]>>)} :
           world' = IF noText(trimmedText(text))
                    THEN ignore
                    ELSE [spend(1) EXCEPT !.bgBlocked = TRUE]
    /\ UNCHANGED <<fnPhase, inHistory, inText, inLimit, out1, out2, rcVars,
                   utilVars, storedText, popupOp, contentOp, load, persister,
                   queueVars>>

HistNext ==
    \/ LoadRead
    \/ \E ok \in BOOLEAN : LoadClipboard(ok)
    \/ \E ok \in BOOLEAN : LoadWriteBack(ok)
    \/ PopupTyped
    \/ PopupSelected
    \/ \E ok \in BOOLEAN : PopupSet(ok)
    \/ \E ok \in BOOLEAN : PopupCurrentText(ok)
    \/ ContentCopied
    \/ \E ok \in BOOLEAN : ContentSet(ok)
    \/ CopiedElsewhere
    \/ BgClipboardAdd

SpecHist == HistInit /\ [][HistNext]_vars





---------------------------------------------------------------------------
(* Claims about updateHistory, checked under SpecFn. *)

\* number of elements of seq equal to x
Count(seq, x) == Cardinality({i \in 1..Len(seq) : seq[i] = x})

\* the coerced input queue without the normalized text, followed by it
InsertedQueue ==
    SelectSeq(coerceTextArray(inHistory), LAMBDA h : h # trimmedText(inText))
        \o <<trimmedText(inText)>>

\* C8: upserting the same text a second time, with the same limit, returns
\* the queue the first upsert returned.
C8_UpsertIdempotent == fnPhase = "twice" => out2 = out1

C8_Witness ==
    /\ fnPhase = "twice"
    /\ trimmedText(inText) # <<>>
    /\ Count(coerceTextArray(inHistory), trimmedText(inText)) = 1
    /\ Len(out1) >= 2
    /\ inLimit >= 2

\* C9 as stated: for every queue, text and limit the result holds the
\* normalized text at most once and is no longer than the limit.
C9_Original ==
    fnPhase # "input" =>
        /\ Count(out1, trimmedText(inText)) <= 1
        /\ Len(out1) <= inLimit

\* C9 amended: the result holds the normalized text at most once, and when
\* the normalized text is non-empty its length is at most the limit (at
\* most 0 for a negative limit).
C9_NoDuplicateAndBounded ==
    fnPhase # "input" =>
        /\ Count(out1, trimmedText(inText)) <= 1
        /\ trimmedText(inText) # <<>> =>
               Len(out1) <= (IF inLimit < 0 THEN 0 ELSE inLimit)

C9_Witness ==
    /\ fnPhase = "once"
    /\ trimmedText(inText) # <<>>
    /\ Count(coerceTextArray(inHistory), trimmedText(inText)) = 2
    /\ Len(InsertedQueue) > inLimit
    /\ Len(out1) = inLimit
    /\ inLimit >= 1

\* C10: when the queue with the text inserted is longer than the limit, the
\* result is its last `limit` elements, in the same order (none for a limit
\* below 1).
C10_DropsOldest ==
    (fnPhase # "input" /\ trimmedText(inText) # <<>>
        /\ Len(InsertedQueue) > inLimit) =>
        LET n == IF inLimit < 0 THEN 0 ELSE inLimit
        IN  /\ Len(out1) = n
            /\ \A i \in 1..n : out1[i] = InsertedQueue[Len(InsertedQueue) - n + i]

C10_Witness ==
    /\ fnPhase = "once"
    /\ trimmedText(inText) # <<>>
    /\ inLimit >= 2
    /\ Len(InsertedQueue) >= inLimit + 2
    /\ out1[1] # InsertedQueue[1]

---------------------------------------------------------------------------
(* Claims about the serializer, checked under SpecSerial (safety) and       *)
(* SpecSerialFair (liveness).  Task ids grow in enqueue order.              *)

Enqueued(i) == Len(tasks) >= i
HasStarted(i) ==
    \E k \in 1..Len(started[tasks[i].ctx]) : started[tasks[i].ctx][k] = i
SameQueue(i, j) == tasks[i].ctx = tasks[j].ctx

\* C2: on one serializer the tasks start in the order they were enqueued:
\* a task never starts before a task enqueued earlier on its serializer.
C2_StartInEnqueueOrder ==
    /\ \A c \in TestQueues : \A a, b \in 1..Len(started[c]) :
           a < b => started[c][a] < started[c][b]
    /\ \A i, j \in TaskIds :
           (j < i /\ SameQueue(i, j) /\ HasStarted(i)) => HasStarted(j)

C2_Witness ==
    \E i, j \in TaskIds :
        /\ j < i /\ SameQueue(i, j)
        /\ tasks[i].pred = j
        /\ HasStarted(i)
        /\ \E k \in TaskIds : k > i /\ SameQueue(i, k) /\ tasks[k].pc = "queued"

\* C3: after a task has failed, every task enqueued after it on the same
\* serializer (before or after the failure) still runs its body to an
\* outcome of its own, and they do so in enqueue order.
C3_FailureDoesNotBlock ==
    /\ \A i \in 1..MaxJobs :
           (/\ Enqueued(i)
            /\ \E j \in 1..(i - 1) : SameQueue(i, j) /\ tasks[j].result = "failed")
               ~> (Enqueued(i) /\ tasks[i].result # "none")
    /\ [](\A i, j \in TaskIds :
              (j < i /\ SameQueue(i, j) /\ HasStarted(i)) => tasks[j].pc = "done")

C3_Witness ==
    \E j, i \in TaskIds :
        /\ j < i /\ SameQueue(i, j)
        /\ tasks[j].result = "failed"
        /\ tasks[i].pred = j
        /\ tasks[i].result = "ok"

\* C4: the promise enqueue returned fulfils exactly when its own task
\* succeeded and rejects exactly when its own task failed.
C4_PromiseIsOwnOutcome ==
    \A i \in TaskIds :
        /\ tasks[i].promise = "fulfilled" <=> tasks[i].result = "ok"
        /\ tasks[i].promise = "rejected" <=> tasks[i].result = "failed"

C4_Witness ==
    \E j, i, k \in TaskIds :
        /\ tasks[i].pred = j /\ tasks[k].pred = i
        /\ tasks[j].promise = "rejected"
        /\ tasks[i].promise = "fulfilled"
        /\ tasks[k].promise = "rejected"

\* C7: every enqueued task eventually starts and the promise enqueue
\* returned for it eventually settles.
C7_EveryTaskSettles ==
    \A i \in 1..MaxJobs :
        Enqueued(i) ~>
            (Enqueued(i) /\ HasStarted(i) /\ tasks[i].promise # "pending")

C7_Witness ==
    \E i \in TaskIds :
        /\ tasks[i].pred # 0
        /\ HasStarted(i)
        /\ tasks[i].promise # "pending"
        /\ \A j \in TaskIds : tasks[j].pc = "done"
        /\ Len(tasks) >= 3

---------------------------------------------------------------------------
(* Claims about the contexts, checked under SpecSys (safety) and           *)
(* SpecSysFair (liveness).                                                 *)

\* the persisted history as the code reads it
Stored == coerceTextArray(store)

InSeq(seq, x) == \E k \in 1..Len(seq) : seq[k] = x

\* the history after the first n tasks, had the appends that were written
\* been applied one after the other in enqueue order
RECURSIVE AppliedInOrder(_)
AppliedInOrder(n) ==
    IF n = 0 THEN <<>>
    ELSE IF tasks[n].result = "ok"
         THEN updateHistory(asArray(AppliedInOrder(n - 1)), tasks[n].text,
                            HISTORY_LIMIT)
         ELSE AppliedInOrder(n - 1)

\* every append so far came from context c and has settled
OnlyContextSettled(c) ==
    \A i \in TaskIds : tasks[i].ctx = c /\ tasks[i].pc = "done"

\* C1: when all the appends submitted in one context (through its
\* serializer) have settled, the persisted history holds the text of every
\* append that was written, and is the history obtained by applying them
\* one by one in submission order.
C1_NoLostAppendInOneContext ==
    \A c \in {"popup", "content"} :
        OnlyContextSettled(c) =>
            /\ \A i \in TaskIds :
                   tasks[i].result = "ok" => InSeq(Stored, trimmedText(tasks[i].text))
            /\ Stored = AppliedInOrder(Len(tasks))

C1_Witness ==
    /\ OnlyContextSettled("popup")
    /\ Len(tasks) = 3
    /\ \A i \in TaskIds : tasks[i].result = "ok"
    /\ tasks[2].waited /\ tasks[3].waited
    /\ tasks[1].text = Str(<<"a">>) /\ tasks[2].text = Str(<<"b">>)
    /\ tasks[3].text = Str(<<"a">>)
    /\ Stored = << <<"b">>, <<"a">> >>

\* C5: when appends of two different contexts, of different texts, have
\* both completed, both texts are in the persisted history.
C5_BothTextsAcrossContexts ==
    \A i, j \in TaskIds :
        (/\ tasks[i].kind = "append" /\ tasks[j].kind = "append"
         /\ tasks[i].ctx # tasks[j].ctx
         /\ tasks[i].text # tasks[j].text
         /\ tasks[i].result = "ok" /\ tasks[j].result = "ok")
        => (/\ InSeq(Stored, trimmedText(tasks[i].text))
            /\ InSeq(Stored, trimmedText(tasks[j].text)))

\* C6: every CLIPBOARD_ADD message received by the background listener
\* eventually gets a response.
C6_EveryMessageAnswered ==
    \A i \in 1..(2 * MaxOps) :
        (Enqueued(i) /\ tasks[i].kind = "message")
            ~> (Enqueued(i) /\ tasks[i].response # "none")

---------------------------------------------------------------------------
(* Further claims about updateHistory, checked under SpecFn. *)

\* seq without its elements equal to x
Without(seq, x) == SelectSeq(seq, LAMBDA h : h # x)

\* whether short is the last Len(short) elements of long
IsSuffix(short, long) ==
    /\ Len(short) <= Len(long)
    /\ \A i \in 1..Len(short) : short[i] = long[Len(long) - Len(short) + i]

\* whether a raw history is already an array of normalized non-empty strings
IsClean(history) ==
    /\ history.isArray
    /\ \A i \in 1..Len(history.items) :
           /\ history.items[i].k = "string"
           /\ history.items[i].s # <<>>
           /\ trim(history.items[i].s) = history.items[i].s

\* C11: upserting a non-empty text that is in the queue, with a limit of 1
\* or more, puts it last and only there; the elements before it are the
\* other elements of the queue, in their order (the oldest dropped if the
\* limit asks for it), and the queue is not longer than before.
C11_MovesExistingToEnd ==
    (/\ fnPhase # "input"
     /\ trimmedText(inText) # <<>>
     /\ InSeq(coerceTextArray(inHistory), trimmedText(inText))
     /\ inLimit >= 1) =>
        /\ out1 # <<>>
        /\ out1[Len(out1)] = trimmedText(inText)
        /\ Count(out1, trimmedText(inText)) = 1
        /\ IsSuffix(SubSeq(out1, 1, Len(out1) - 1),
                    Without(coerceTextArray(inHistory), trimmedText(inText)))
        /\ Len(out1) <= Len(coerceTextArray(inHistory))

C11_Witness ==
    /\ fnPhase = "once"
    /\ inLimit >= 3
    /\ Len(coerceTextArray(inHistory)) = 3
    /\ coerceTextArray(inHistory)[1] = trimmedText(inText)
    /\ Count(coerceTextArray(inHistory), trimmedText(inText)) = 1
    /\ Len(out1) = 3

\* C12 as stated: for a text that normalizes to the empty string the result
\* is the input queue itself, element for element.
C12_Original ==
    (fnPhase # "input" /\ trimmedText(inText) = <<>>) => asArray(out1) = inHistory

\* C12 amended: for a text that normalizes to the empty string the result
\* is the coerced queue (the trimmed, non-empty elements of the input, in
\* order), whatever the limit; it is the input itself when the input is an
\* array of normalized non-empty strings.
C12_EmptyTextReturnsCoercedQueue ==
    (fnPhase # "input" /\ trimmedText(inText) = <<>>) =>
        /\ out1 = filterBoolean(mapTrimmed(inHistory.items))
        /\ IsClean(inHistory) => asArray(out1) = inHistory

C12_Witness ==
    /\ fnPhase = "once"
    /\ inText = Str(<<" ">>)
    /\ IsClean(inHistory)
    /\ Len(out1) = 3
    /\ inLimit = 1

\* C13 as stated: with a limit of 0 or less the result is empty for every
\* queue and every text.
C13_Original == (fnPhase # "input" /\ inLimit <= 0) => out1 = <<>>

\* C13 amended: with a limit of 0 or less the result is empty for every
\* queue and every text whose normalized form is non-empty.
C13_NonPositiveLimitEmpties ==
    (fnPhase # "input" /\ inLimit <= 0 /\ trimmedText(inText) # <<>>) =>
        out1 = <<>>

C13_Witness ==
    /\ fnPhase = "once"
    /\ inLimit = 0
    /\ trimmedText(inText) # <<>>
    /\ Len(coerceTextArray(inHistory)) >= 2
    /\ out1 = <<>>

---------------------------------------------------------------------------
(* Claims about computeInitialState, checked under SpecRc. *)

tLast == trimmedText(inLastClipboard)
tSaved == trimmedText(inCurrentText)
tNew == trimmedText(inNewClipboard)
givenLimit == IF inLimit = <<>> THEN DefaultLimit ELSE inLimit[1]
Computed == fnPhase # "input"
ClipboardChanged == tNew # <<>> /\ tNew # tLast
PendingEdit == tSaved # <<>> /\ tSaved # tLast

\* the last n elements of seq
LastN(seq, n) ==
    IF n <= 0 THEN <<>>
    ELSE IF Len(seq) <= n THEN seq
    ELSE SubSeq(seq, Len(seq) - n + 1, Len(seq))

\* C14: when the normalized newClipboard is non-empty and differs from the
\* normalized lastClipboard, the state shows it (displayText,
\* newLastClipboard and newCurrentText are the normalized newClipboard) and
\* clipboardChanged is true; in every other case clipboardChanged is false.
C14_Rule1ShowsNewClipboard ==
    Computed =>
        IF ClipboardChanged
        THEN /\ initialState.displayText = tNew
             /\ initialState.newLastClipboard = tNew
             /\ initialState.newCurrentText = tNew
             /\ initialState.clipboardChanged = TRUE
        ELSE initialState.clipboardChanged = FALSE

C14_Witness ==
    /\ Computed
    /\ inNewClipboard = Str(<<" ", "a", "\t">>)
    /\ inLastClipboard = Str(<<"b">>)
    /\ initialState.displayText = <<"a">>
    /\ initialState.clipboardChanged

\* C15: when the clipboard changed and the normalized saved text is
\* non-empty and differs from the normalized lastClipboard, newHistory is
\* upsert(upsert(history, savedText, limit), newClipboard, limit); with room
\* for both (limit at least 2, two different texts) the new clipboard text
\* is last and the saved text just before it.
C15_EditThenClipboard ==
    (Computed /\ ClipboardChanged /\ PendingEdit) =>
        /\ initialState.newHistory =
               updateHistory(asArray(updateHistory(inHistory, inCurrentText,
                                                   givenLimit)),
                             inNewClipboard, givenLimit)
        /\ (givenLimit >= 2 /\ tSaved # tNew) =>
               /\ Len(initialState.newHistory) >= 2
               /\ initialState.newHistory[Len(initialState.newHistory)] = tNew
               /\ initialState.newHistory[Len(initialState.newHistory) - 1]
                      = tSaved

C15_Witness ==
    /\ Computed
    /\ inLastClipboard = Str(<<"a">>)
    /\ inCurrentText = Str(<<"d">>)
    /\ inNewClipboard = Str(<<"b">>)
    /\ inHistory = Arr(<<Str(<<"a">>), Str(<<"b">>), Str(<<"c">>)>>)
    /\ inLimit = <<3>>
    /\ initialState.newHistory = << <<"c">>, <<"d">>, <<"b">> >>

\* C16 as stated: when the clipboard changed and the normalized saved text
\* is non-empty and differs from lastClipboard, the saved text is an element
\* of newHistory, for every history and every limit.
C16_Original ==
    (Computed /\ ClipboardChanged /\ PendingEdit) =>
        InSeq(initialState.newHistory, tSaved)

\* C16 amended: the same, for every history and every limit of 2 or more
\* (or a saved text equal to the new clipboard text and a limit of 1).
C16_PendingEditKept ==
    (/\ Computed /\ ClipboardChanged /\ PendingEdit
     /\ (givenLimit >= 2 \/ (givenLimit = 1 /\ tSaved = tNew))) =>
        InSeq(initialState.newHistory, tSaved)

C16_Witness ==
    /\ Computed /\ ClipboardChanged /\ PendingEdit
    /\ inLimit = <<2>>
    /\ Len(coerceTextArray(inHistory)) = 3
    /\ ~InSeq(coerceTextArray(inHistory), tSaved)
    /\ initialState.newHistory = <<tSaved, tNew>>

\* C17: when the clipboard changed and the saved text is empty or equal,
\* after normalization, to lastClipboard, newHistory is
\* upsert(history, newClipboard, limit): the coerced history without the new
\* clipboard text, then that text, cut to its newest `limit` elements.
C17_UnchangedTextNotInserted ==
    (Computed /\ ClipboardChanged /\ ~PendingEdit) =>
        /\ initialState.newHistory =
               updateHistory(inHistory, inNewClipboard, givenLimit)
        /\ initialState.newHistory =
               LastN(Append(Without(coerceTextArray(inHistory), tNew), tNew),
                     givenLimit)

C17_Witness ==
    /\ Computed
    /\ inLastClipboard = Str(<<"a">>)
    /\ inCurrentText = Str(<<" ", "a", "\t">>)
    /\ inNewClipboard = Str(<<"d">>)
    /\ inLimit = <<>>
    /\ initialState.newHistory = << <<"a">>, <<"b">>, <<"c">>, <<"d">> >>

\* C18: when the clipboard changed and the limit is 1 or more, newHistory
\* has at most `limit` elements and its last element is the normalized
\* newClipboard, which is displayText.
C18_Rule1BoundedNewestLast ==
    (Computed /\ ClipboardChanged /\ givenLimit >= 1) =>
        /\ Len(initialState.newHistory) <= givenLimit
        /\ initialState.newHistory # <<>>
        /\ initialState.newHistory[Len(initialState.newHistory)] = tNew
        /\ initialState.displayText = tNew

C18_Witness ==
    /\ Computed /\ ClipboardChanged /\ PendingEdit
    /\ inLimit = <<1>>
    /\ Len(coerceTextArray(inHistory)) = 3
    /\ initialState.newHistory = <<tNew>>

\* C19 as stated: when the normalized newClipboard is empty or equals the
\* normalized lastClipboard and the normalized saved text is non-empty, the
\* state shows the saved text, keeps lastClipboard, has clipboardChanged
\* false and a history with the elements of the input history in its order.
C19_Original ==
    (Computed /\ ~ClipboardChanged /\ tSaved # <<>>) =>
        /\ initialState.displayText = tSaved
        /\ initialState.newCurrentText = tSaved
        /\ initialState.newLastClipboard = tLast
        /\ initialState.clipboardChanged = FALSE
        /\ asArray(initialState.newHistory) = inHistory

\* C19 amended: the same, with newHistory the coerced input history (its
\* trimmed, non-empty elements in order, not cut to the limit), which is
\* the input history when that is an array of normalized non-empty strings.
C19_Rule2ShowsSavedText ==
    (Computed /\ ~ClipboardChanged /\ tSaved # <<>>) =>
        /\ initialState.displayText = tSaved
        /\ initialState.newCurrentText = tSaved
        /\ initialState.newLastClipboard = tLast
        /\ initialState.clipboardChanged = FALSE
        /\ initialState.newHistory = coerceTextArray(inHistory)
        /\ IsClean(inHistory) => asArray(initialState.newHistory) = inHistory

C19_Witness ==
    /\ Computed
    /\ inLastClipboard = Str(<<"a">>)
    /\ inNewClipboard = Str(<<" ", "a", "\t">>)
    /\ inCurrentText = Str(<<"d">>)
    /\ inLimit = <<1>>
    /\ IsClean(inHistory)
    /\ Len(initialState.newHistory) = 3
    /\ initialState.displayText = <<"d">>

\* C20 as stated: when the clipboard is unchanged or empty and the saved
\* text is empty, displayText and newCurrentText are the last element of
\* the input history ("" if it is empty), newLastClipboard is
\* lastClipboard, the history is the input history and clipboardChanged is
\* false.
C20_Original ==
    (Computed /\ ~ClipboardChanged /\ tSaved = <<>>) =>
        LET last == IF inHistory.isArray /\ inHistory.items # <<>>
                    THEN inHistory.items[Len(inHistory.items)].s
                    ELSE <<>>
        IN  /\ initialState.displayText = last
            /\ initialState.newCurrentText = last
            /\ initialState.newLastClipboard = tLast
            /\ initialState.clipboardChanged = FALSE
            /\ asArray(initialState.newHistory) = inHistory

\* C20 amended: the same, with the coerced input history (its trimmed,
\* non-empty elements in order) in place of the input history, both for the
\* element shown and for newHistory.
C20_Rule3FallsBackToHistory ==
    (Computed /\ ~ClipboardChanged /\ tSaved = <<>>) =>
        LET clean == filterBoolean(mapTrimmed(inHistory.items))
            last == IF clean # <<>> THEN clean[Len(clean)] ELSE <<>>
        IN  /\ initialState.displayText = last
            /\ initialState.newCurrentText = last
            /\ initialState.newLastClipboard = tLast
            /\ initialState.clipboardChanged = FALSE
            /\ initialState.newHistory = clean
            /\ IsClean(inHistory) =>
                   asArray(initialState.newHistory) = inHistory

C20_Witness ==
    /\ Computed
    /\ inLastClipboard = Str(<<"b">>)
    /\ inNewClipboard = Str(<<"b">>)
    /\ inCurrentText = Str(<<" ">>)
    /\ inHistory = Arr(<<Str(<<"a">>), Str(<<"c">>), Str(<<" ">>)>>)
    /\ initialState.displayText = <<"c">>
    /\ initialState.newHistory = << <<"a">>, <<"c">> >>

---------------------------------------------------------------------------
(* Claims about the quota-aware persisters, checked under SpecPersist and
   SpecPersistFair. *)

\* the first call is writing to a store that rejects, with a quota error,
\* exactly the queues longer than its capacity K >= 1, and its candidate
\* queue is longer than K
OverQuota ==
    /\ persister.call = 1
    /\ persister.mode = "capacity"
    /\ persister.capacity >= 1
    /\ Len(persister.queue) > persister.capacity

\* C22: with a store that rejects with a quota error every write of a queue
\* longer than K >= 1 and accepts every other write, persisting a queue of
\* length L > K ends, and ends with exactly the last K elements of the queue
\* stored in their order, after min(L, HISTORY_LIMIT) - K + 1 writes, with
\* the status line saying that the oldest items were dropped.
C22_QuotaEvictionConverges ==
    /\ [](OverQuota /\ persister.phase = "returned" =>
             /\ ~persister.aborted
             /\ coerceTextArray(store) =
                    SubSeq(persister.queue,
                           Len(persister.queue) - persister.capacity + 1,
                           Len(persister.queue))
             /\ persister.attempts =
                    Len(enforceLimit(persister.queue)) - persister.capacity + 1
             /\ persister.status = EvictedStatus)
    /\ (OverQuota /\ persister.phase = "writing")
           ~> (OverQuota /\ persister.phase = "returned")

C22_Witness ==
    /\ OverQuota
    /\ persister.variant = "saveHistory"
    /\ persister.phase = "returned"
    /\ persister.capacity = 1
    /\ persister.queue = << <<"a">>, <<"b">>, <<"c">> >>
    /\ store = Arr(<<Str(<<"c">>)>>)

\* C23: whatever the store answers, a persister call makes at most
\* max(L, 1) writes, L the length of its candidate queue, and returns.
C23_RetryLoopTerminates ==
    /\ [](persister.attempts <=
              (IF Len(persister.queue) > 1 THEN Len(persister.queue) ELSE 1))
    /\ (persister.phase = "writing") ~> (persister.phase = "returned")

C23_Witness ==
    /\ persister.phase = "returned"
    /\ persister.mode = "free"
    /\ persister.aborted
    /\ Len(persister.queue) = 3
    /\ persister.attempts = 3
    /\ persister.lastError = QuotaMessage

\* the last write failed with an error that is not a quota error, or with a
\* quota error for a candidate queue of at most one element
FatalWrite ==
    /\ persister.lastError # ""
    /\ \/ ~isQuotaError(persister.lastError)
       \/ persister.lastLength <= 1

\* C24: after such a failure the call has returned without another write,
\* the status line shows the error and the persisted history is what it was
\* before the call.
C24_AbortLeavesStoreUntouched ==
    FatalWrite =>
        /\ persister.phase = "returned"
        /\ persister.aborted
        /\ persister.status = ErrorStatus
        /\ store = persister.before

C24_Witness ==
    /\ FatalWrite
    /\ persister.lastError = OtherMessage
    /\ persister.didEvictForQuota
    /\ persister.attempts = 2
    /\ persister.phase = "returned"
    /\ store = Arr(<<Str(<<"a">>)>>)

\* C25: when saveHistory or pushToHistory aborts, it returns the queue that
\* was in the store before the call.
C25_AbortReturnsPersisted ==
    (persister.aborted /\ persister.variant \in {"saveHistory", "pushToHistory"})
        => /\ persister.returned.defined
           /\ persister.returned.queue = coerceTextArray(persister.before)

\* C26: with a store whose answer depends only on the value written,
\* saveHistory of the queue a successful saveHistory returned makes one
\* write, which is accepted, evicts nothing, returns that queue and leaves
\* the stored history as it was.
C26_PersistAgainChangesNothing ==
    (/\ persister.call = 2
     /\ persister.mode \in {"capacity", "broken"}) =>
        /\ store = persister.before
        /\ store = asArray(persister.firstReturned)
        /\ ~persister.didEvictForQuota
        /\ ~persister.aborted
        /\ persister.phase = "returned" =>
               /\ persister.attempts = 1
               /\ persister.returned.queue = persister.firstReturned

C26_Witness ==
    /\ persister.call = 2
    /\ persister.phase = "returned"
    /\ persister.mode = "capacity"
    /\ persister.capacity = 2
    /\ persister.status = EvictedStatus
    /\ Len(persister.firstReturned) = 2
    /\ persister.attempts = 1

---------------------------------------------------------------------------
(* Claims about coerceTextArray and extractCopiedTextFromCopyEvent, checked
   under SpecUtil. *)

\* the normalized form of a raw value
Normalized(v) == IF v.k \in {"null", "undefined"} THEN <<>> ELSE trim(v.s)

\* the positions of items whose element does not normalize to ""
KeptPositions(items) ==
    SelectSeq([i \in 1..Len(items) |-> i],
              LAMBDA i : Normalized(items[i]) # <<>>)

\* C29: coerceTextArray of a value that is not a list is the empty
\* sequence; of a list, it is the normalized forms of the elements that do
\* not normalize to the empty string, in their order.
C29_CoerceKeepsNormalizedNonEmpty ==
    (fnPhase = "once" /\ ~copyEvent.given) =>
        IF ~inHistory.isArray THEN out1 = <<>>
        ELSE LET kept == KeptPositions(inHistory.items)
             IN  /\ Len(out1) = Len(kept)
                 /\ \A k \in 1..Len(kept) :
                        out1[k] = Normalized(inHistory.items[kept[k]])

C29_Witness ==
    /\ fnPhase = "once"
    /\ ~copyEvent.given
    /\ inHistory = Arr(<<Str(<<" ", "a", "\t">>), Null, Str(<<"b">>)>>)
    /\ out1 = << <<"a">>, <<"b">> >>

\* the characters selected in an input or textarea, nothing for any other
\* element
SelectedRange(el) ==
    IF /\ ~el.isNull
       /\ el.tagName \in {"TEXTAREA", "textarea", "INPUT", "input"}
       /\ el.numeric
       /\ el.value.k = "string"
       /\ el.selectionStart < el.selectionEnd
       /\ el.selectionEnd <= Len(el.value.s)
    THEN [i \in 1..(el.selectionEnd - el.selectionStart) |->
              el.value.s[el.selectionStart + i]]
    ELSE <<>>

\* the trimmed text of each source of a copy event, in priority order; a
\* source that throws yields nothing
SourceTexts ==
    << IF copyEvent.getDataThrows THEN <<>>
       ELSE Normalized(copyEvent.clipboardData),
       trim(SelectedRange(copyEvent.activeElement)),
       trim(SelectedRange(copyEvent.target)),
       IF copyEvent.getSelectionThrows THEN <<>>
       ELSE Normalized(copyEvent.selection) >>

\* whether the k-th source is the first one with a non-empty text
FirstYielding(k) ==
    /\ SourceTexts[k] # <<>>
    /\ \A j \in 1..(k - 1) : SourceTexts[j] = <<>>

Extracted == fnPhase = "once" /\ copyEvent.given

\* C30 as stated: the result is the trimmed text of the first of the four
\* sources that yields a non-empty trimmed text, and the empty string when
\* none does.
C30_Original ==
    Extracted =>
        /\ \A k \in 1..4 : FirstYielding(k) => extracted = SourceTexts[k]
        /\ (\A k \in 1..4 : SourceTexts[k] = <<>>) => extracted = <<>>

\* C30 amended: the same when a document is at hand; without a document
\* only the event's clipboardData is looked at.
C30_FirstYieldingSource ==
    Extracted =>
        IF copyEvent.hasDocument
        THEN /\ \A k \in 1..4 : FirstYielding(k) => extracted = SourceTexts[k]
             /\ (\A k \in 1..4 : SourceTexts[k] = <<>>) => extracted = <<>>
        ELSE extracted = SourceTexts[1]

C30_Witness ==
    /\ Extracted
    /\ copyEvent.hasDocument
    /\ copyEvent.getDataThrows
    /\ copyEvent.activeElement.tagName = "DIV"
    /\ copyEvent.target.tagName = "input"
    /\ copyEvent.selection = Str(<<" ", "d">>)
    /\ ~copyEvent.getSelectionThrows
    /\ extracted = <<"c">>

---------------------------------------------------------------------------
(* Claims about the persisted history over the life of the extension       *)
(* (SpecHist).                                                             *)

\* the popup's open has run to the end with a clipboard read that failed
FailedReadDone ==
    /\ load.phase = "writing"
    /\ load.readFailed
    /\ load'.phase = "done"

\* what is shown when there is no new clipboard content: the saved text,
\* else the latest history entry, else nothing
ShownWithoutClipboard ==
    IF load.currentText # <<>> THEN load.currentText
    ELSE IF load.history # <<>> THEN load.history[Len(load.history)]
    ELSE <<>>

\* C21: when navigator.clipboard.readText() fails as the popup opens,
\* loadInitialState goes on (it does not reject) and reconciles with an
\* empty newClipboard: clipboardChanged is false, the saved text (else the
\* latest history entry) is displayed, the status "Loaded from clipboard" is
\* not shown, and the write-back stores the lastClipboard and the history
\* that were read at the open, so that, the store not having been written
\* in between, their values (as the code reads them) are the previous ones.
C21_FailedReadIsNoNewContent ==
    [][/\ (load.phase = "read" /\ load'.phase # "read" /\ load'.readFailed)
              => /\ load'.phase = "writing"
                 /\ ~load'.result.clipboardChanged
                 /\ load'.displayText = ShownWithoutClipboard
                 /\ load'.result.newHistory = load.history
                 /\ load'.result.newLastClipboard = load.lastClipboard
                 /\ UNCHANGED <<store, storedText>>
       /\ FailedReadDone
              => /\ store' = asArray(load.history)
                 /\ storedText'.lastClipboard = Str(load.lastClipboard)
                 /\ trimmedText(storedText'.lastClipboard)
                        = trimmedText(storedText.lastClipboard)
                 /\ coerceTextArray(store) = load.history
                        => coerceTextArray(store') = coerceTextArray(store)
                 /\ load'.status # "Loaded from clipboard"
                 /\ load'.displayText = ShownWithoutClipboard]_vars

\* a popup opened a second time, its clipboard read failed, and the saved
\* text, the last clipboard and the history of the first open were kept
C21_Witness ==
    /\ load.phase = "done"
    /\ load.readFailed
    /\ load.lastClipboard # <<>>
    /\ load.displayText = load.currentText
    /\ load.displayText # <<>>
    /\ store = asArray(load.history)
    /\ Len(store.items) >= 1
    /\ storedText.lastClipboard = Str(load.lastClipboard)

\* C27: from an empty store, whatever the popup (typing, paste, selection,
\* reconciliation at open), the content script (copy events) and the
\* background do and however their storage reads and writes interleave,
\* the stored history is an array of strings that are not empty, carry no
\* white space at their ends, and are pairwise different.
C27_StoredHistoryDistinctTrimmed ==
    store.isArray =>
        /\ IsClean(store)
        /\ \A i, j \in 1..Len(store.items) :
               i # j => store.items[i] # store.items[j]

\* an entry that was in the stored history has been selected in the popup
\* and is now stored last, after an open and the copies of several pages
C27_Witness ==
    /\ popupOp.kind = "moveToEnd"
    /\ popupOp.phase = "currentText"
    /\ load.phase = "done"
    /\ store.isArray
    /\ Len(store.items) >= 3
    /\ world.fresh = Len(store.items)
    /\ store.items[Len(store.items)] = Str(popupOp.text)

\* C28: from an empty store, whatever the contexts do and however their
\* storage reads and writes interleave, the stored history never has more
\* than HISTORY_LIMIT (10) elements.
C28_StoredHistoryWithinLimit ==
    Len(store.items) <= HISTORY_LIMIT

\* eleven texts were stored one after the other and the popup was opened:
\* the first text is gone and ten are stored
C28_Witness ==
    /\ world.fresh = HISTORY_LIMIT + 1
    /\ load.phase = "done"
    /\ Len(store.items) = HISTORY_LIMIT
    /\ store.items[1] = Str(<<Alphabet[2]>>)
    /\ store.items[HISTORY_LIMIT] = Str(<<Alphabet[HISTORY_LIMIT + 1]>>)

---------------------------------------------------------------------------
(* Claims about the background writer, checked under SpecSysFair. *)

\* some storageSet was refused
SomeWriteFailed ==
    \E j \in TaskIds : tasks[j].result = "failed"

\* C31: every CLIPBOARD_ADD message received by the background whose text
\* is not empty after trimming has its text in the stored history at some
\* later time, unless a storage write was refused.
C31_MessageTextEventuallyStored ==
    \A i \in 1..(2 * MaxOps) :
        (/\ Enqueued(i)
         /\ tasks[i].kind = "message"
         /\ tasks[i].ctx = "background"
         /\ trimmedText(tasks[i].text) # <<>>)
            ~> (\/ SomeWriteFailed
                \/ /\ Enqueued(i)
                   /\ InSeq(Stored, trimmedText(tasks[i].text)))

---------------------------------------------------------------------------
(* Mutual exclusion in the serializer, checked under SpecSerial. *)

\* the tasks of serializer c that have started and not settled
Running(c) ==
    {i \in TaskIds : /\ tasks[i].ctx = c
                     /\ HasStarted(i)
                     /\ tasks[i].promise = "pending"}

\* C32: when the body of a task has started, the promise of every task
\* enqueued before it on the same serializer has settled; hence a
\* serializer has at most one task that has started and not settled.
C32_OneRunningTaskPerSerializer ==
    /\ \A i, j \in TaskIds :
           (j < i /\ SameQueue(i, j) /\ HasStarted(i))
               => (HasStarted(j) /\ tasks[j].promise # "pending")
    /\ \A c \in TestQueues : Cardinality(Running(c)) <= 1

\* on one serializer a task runs after an earlier one has settled while a
\* later one waits, and a task of the other serializer runs at the same time
C32_Witness ==
    \E j, i, k, o \in TaskIds :
        /\ j < i /\ i < k
        /\ SameQueue(i, j) /\ SameQueue(i, k) /\ ~SameQueue(i, o)
        /\ tasks[j].promise # "pending"
        /\ i \in Running(tasks[i].ctx)
        /\ tasks[k].pc = "queued" /\ tasks[k].waited
        /\ o \in Running(tasks[o].ctx)

---------------------------------------------------------------------------
(* The write-back of loadInitialState against the popup's own appends,     *)
(* checked under SpecHist.                                                 *)

\* C33: when a popup handler has read and written the history (through
\* addToHistory or moveToEnd) after loadInitialState read the store and
\* before its write-back, the text it appended is in the stored history
\* once the write-back has been made.
C33_WriteBackKeepsPopupAppend ==
    [][(/\ load.phase = "writing"
        /\ load'.phase = "done"
        /\ popupOp.phase = "currentText")
           => InSeq(coerceTextArray(store'), popupOp.text)]_vars

---------------------------------------------------------------------------
(* Further claims about computeInitialState, checked under SpecRc. *)

Reopened == fnPhase = "twice"

\* C34: computeInitialState applied to its own newLastClipboard,
\* newCurrentText and newHistory, with the same newClipboard and limit,
\* returns clipboardChanged = false and the displayText, newHistory,
\* newLastClipboard and newCurrentText of the first call.
C34_ReopenIsNoOp ==
    Reopened =>
        /\ ~reopenedState.clipboardChanged
        /\ reopenedState.displayText = initialState.displayText
        /\ reopenedState.newHistory = initialState.newHistory
        /\ reopenedState.newLastClipboard = initialState.newLastClipboard
        /\ reopenedState.newCurrentText = initialState.newCurrentText

\* the first open took a new clipboard text after a pending edit; the
\* second finds nothing new and shows the same text and history
C34_Witness ==
    /\ Reopened
    /\ initialState.clipboardChanged
    /\ PendingEdit
    /\ Len(initialState.newHistory) >= 2
    /\ reopenedState.displayText = tNew
    /\ reopenedState.newHistory = initialState.newHistory

\* C35: the displayText computeInitialState returns is empty exactly when
\* the normalized newClipboard is empty or equal to the normalized
\* lastClipboard, the normalized saved text is empty and the coerced
\* history is empty; otherwise it is a string that is not empty and has no
\* white space at its ends.
C35_DisplayTextWellDefined ==
    Computed =>
        /\ initialState.displayText = <<>>
               <=> (/\ ~ClipboardChanged
                    /\ tSaved = <<>>
                    /\ coerceTextArray(inHistory) = <<>>)
        /\ trim(initialState.displayText) = initialState.displayText

\* nothing is displayed although the clipboard holds a text and the raw
\* history has an entry: the text is the last clipboard and the entry is
\* white space
C35_Witness ==
    /\ Computed
    /\ tNew # <<>>
    /\ tNew = tLast
    /\ inHistory.isArray
    /\ Len(inHistory.items) >= 1
    /\ initialState.displayText = <<>>


\* no value occurs twice
NoDuplicates(seq) ==
    \A i, j \in 1..Len(seq) : i # j => seq[i] # seq[j]

---------------------------------------------------------------------------
(* Quota eviction drops the oldest entries only, checked under SpecPersist. *)

\* a call that has handed a queue to storageSet
Writing == persister.phase = "writing" \/ persister.attempts > 0

\* C37: whatever the store answers, every queue a persister call hands to
\* storageSet is a suffix of its input queue cut to its last HISTORY_LIMIT
\* elements and, the input queue not being empty, is not empty; so the
\* queue that is stored in the end ends with the newest element of the
\* input queue.
C37_EvictionDropsOldestOnly ==
    Writing =>
        /\ IsSuffix(persister.finalQueue,
                    LastN(persister.queue, HISTORY_LIMIT))
        /\ persister.queue # <<>> => persister.finalQueue # <<>>
        /\ (/\ persister.phase = "returned"
            /\ ~persister.aborted
            /\ persister.queue # <<>>)
               => /\ Stored = persister.finalQueue
                  /\ Stored[Len(Stored)]
                         = persister.queue[Len(persister.queue)]

\* pushToHistory("a") on a full stored history: the queue of eleven is cut
\* to ten, and quota failures in any pattern of a store free to answer
\* left its last three elements, "a" last, stored
C37_Witness ==
    /\ persister.variant = "pushToHistory"
    /\ persister.mode = "free"
    /\ persister.before = FullStore
    /\ Len(persister.queue) = HISTORY_LIMIT + 1
    /\ persister.phase = "returned"
    /\ ~persister.aborted
    /\ persister.attempts = HISTORY_LIMIT - 2
    /\ Len(Stored) = 3
    /\ Stored[3] = <<"a">>

---------------------------------------------------------------------------
(* Requests with an empty text, checked under SpecHist. *)

\* C38: a request to append a text that is empty after trimming (the
\* popup's addToHistory and moveToEnd, the content script's copy listener
\* and addToHistory, the background's addToHistory) begins no task and
\* writes nothing: the three stored values are as before, and every task
\* that is running carries a text that is not empty.
C38_EmptyTextIsIgnored ==
    /\ [][world'.ignored # world.ignored
             => /\ UNCHANGED <<store, storedText, popupOp, contentOp, load>>
                /\ world'.bgBlocked = world.bgBlocked
                /\ world'.fresh = world.fresh]_vars
    /\ [](popupOp.phase # "idle" => popupOp.text # <<>>)
    /\ [](contentOp.phase # "idle" => contentOp.text # <<>>)

\* white space was copied in a page and sent to the background while a
\* history of two texts was stored: it is still stored
C38_Witness ==
    /\ world.ignored = 2
    /\ world.clipboard = Str(<<" ">>)
    /\ world.fresh = 2
    /\ store = Arr(<<Str(<<"a">>), Str(<<"b">>)>>)
    /\ contentOp = NoOp
    /\ ~world.bgBlocked

---------------------------------------------------------------------------
(* moveToEnd against updateHistory, checked under SpecHist. *)

\* moveToEnd has read the history and calls setHistory
MoveToEndRead ==
    /\ popupOp.phase = "idle"
    /\ popupOp'.phase = "set"
    /\ popupOp'.kind = "moveToEnd"

\* the storageSet of moveToEnd is accepted
MoveToEndStored ==
    /\ popupOp.phase = "set"
    /\ popupOp.kind = "moveToEnd"
    /\ popupOp'.phase = "currentText"

\* C39: the stored history having no value twice, the history moveToEnd
\* stores for a text that is not empty is updateHistory of the history it
\* read, that text and HISTORY_LIMIT, whether the text was in it or not.
C39_MoveToEndIsUpsert ==
    [][/\ MoveToEndRead
          => popupOp'.next = updateHistory(store, Str(popupOp'.text),
                                           HISTORY_LIMIT)
       /\ MoveToEndStored => store' = asArray(popupOp.next)]_vars

\* the oldest of ten stored texts was selected and is now the newest
C39_Witness ==
    /\ popupOp.kind = "moveToEnd"
    /\ popupOp.phase = "currentText"
    /\ world.fresh = HISTORY_LIMIT
    /\ Len(store.items) = HISTORY_LIMIT
    /\ store.items[HISTORY_LIMIT] = Str(<<Alphabet[1]>>)
    /\ store.items[1] = Str(<<Alphabet[2]>>)

\* a text that is no longer stored was selected on a full history: the
\* oldest entry made room for it
C39_WitnessAbsent ==
    /\ popupOp.kind = "moveToEnd"
    /\ popupOp.phase = "currentText"
    /\ world.fresh = HISTORY_LIMIT + 1
    /\ Len(store.items) = HISTORY_LIMIT
    /\ store.items[HISTORY_LIMIT] = Str(<<Alphabet[1]>>)
    /\ store.items[1] = Str(<<Alphabet[3]>>)

===========================================================================
